---- MODULE Spec2Model ----
(***************************************************************************)
(* Model of the HueBLE controller: the effect engine of controller.py      *)
(* (fade_in, fade_out, alarm), the GUI's single-flight scheduling of       *)
(* effects (gui.py, HueControllerGUI._run_now and friends) and the         *)
(* AsyncHandler bridge between the Tk thread and the asyncio loop.         *)
(*                                                                         *)
(* Time is counted in units of 50 ms, the shortest sleep of the engine.    *)
(* A duration u stands for duration_minutes = u / UnitsPerMinute.          *)
(* A coroutine's pc names the await (device call or sleep) it is suspended *)
(* in, or the synchronous check it is about to evaluate; an action is the  *)
(* completion of that await together with the synchronous code after it.   *)
(***************************************************************************)
EXTENDS Integers, Sequences, FiniteSets, TLC

\* ---------------------------------------------------------------- bounds
MaxTasks == 2
MaxFadeK == 6
MaxAlarmDur == 12
MaxLate == 1
CountCap == 3
MaxStops == 2
MaxWait == 1
MaxSubmits == 3
MaxGuiSteps == 1
MaxClicks == 2
CallCap == 6

\* ------------------------------------------------------ program constants
UnitsPerMinute == 1200
StepsPerMinute == 6
FlashInterval == 10
FastInterval == 4
BreathInterval == 1
BreathHigh == 254
BreathLow == 20
BreathStep == 15
FullBrightness == 254
WarmTemp == 500
CoolTemp == 250

None == -1
Tasks == 1..MaxTasks
Styles == {"flash", "fast", "breathing"}
FadeDurs == {k * 100 : k \in 0..MaxFadeK}
AlarmDurs == 0..MaxAlarmDur

Min(a, b) == IF a < b THEN a ELSE b
Max(a, b) == IF a > b THEN a ELSE b
CeilDiv(a, b) == (a + b - 1) \div b

VARIABLES
    co,            \* per task: the frame of the effect coroutine
    obs,           \* per task: history of its device calls (observer state)
    light,         \* power and brightness of the bulb as last written
    clock,         \* the event loop's clock, in time units
    timer_cancel,  \* HueControllerGUI._timer_cancel, the token cancel_check reads
    handler,       \* AsyncHandler: its loop, its _started event, the loop's ready queue
    op,            \* per task: the frame of the coroutine submitted to the handler
    fut,           \* per task: the future run_coroutine_threadsafe returned
    ui,            \* HueControllerGUI: _timer_running, _power_state, light, Tk's after queue
    caller         \* the thread that drives the handler (the Tk thread in the GUI)

engineVars == <<co, obs, light, clock>>
bridgeVars == <<handler, op, fut, ui, caller>>
vars == <<co, obs, light, clock, timer_cancel, handler, op, fut, ui, caller>>

\* ------------------------------------------------------------ the engine
IdleCo == [pc |-> "idle", kind |-> "none", duration |-> 0, style |-> "none",
           cc |-> FALSE, steps |-> 0, i |-> 0, b |-> 0, state |-> TRUE,
           end_time |-> None, result |-> "none", colour |-> "none"]

NoCall == <<"none", 0>>

IdleObs == [last2 |-> <<NoCall, NoCall>>, offIssued |-> FALSE, nBri |-> 0,
            nTemp |-> 0, nChecks |-> 0, sawCancel |-> FALSE, afterSeen |-> 0,
            afterCancel |-> 0, loopWrites |-> 0, sawStop |-> FALSE,
            prevToggle |-> TRUE, alternates |-> TRUE,
            raisedAt |-> "none", sleepsAfterCancel |-> 0, setAt |-> "none",
            againAt |-> "none", nCalls |-> 0, nSleeps |-> 0, lastSleep |-> None,
            lastAwait |-> "none", progress |-> <<>>]

Bump(n) == Min(n + 1, CountCap)

StepsFloorTwo(u) == Max((u * StepsPerMinute) \div UnitsPerMinute, 2)

\* steps = max(int(duration_minutes * 6), 1)
Steps(u) == Max((u * StepsPerMinute) \div UnitsPerMinute, 1)

FadeInFromZero(i, steps) == (FullBrightness * i) \div steps

\* int(1 + 253 * progress), progress = i / steps
FadeInBrightness(i, steps) == 1 + (253 * i) \div steps
\* int(500 - 250 * progress)
FadeInTemp(i, steps) == WarmTemp - CeilDiv(250 * i, steps)
\* max(1, int(254 - 253 * progress))
FadeOutBrightness(i, steps) == Max(1, FullBrightness - CeilDiv(253 * i, steps))
\* int(250 + 250 * progress)
FadeOutTemp(i, steps) == CoolTemp + (250 * i) \div steps

StepBrightness(c) ==
    IF c.kind = "fade_in" THEN FadeInBrightness(c.i, c.steps)
                          ELSE FadeOutBrightness(c.i, c.steps)
StepTemp(c) ==
    IF c.kind = "fade_in" THEN FadeInTemp(c.i, c.steps)
                          ELSE FadeOutTemp(c.i, c.steps)

CancelSeenAfterFirst(c) == c.cc /\ timer_cancel /\ c.i > 0

\* cancel_check and cancel_check()
CancelSeen(c) == c.cc /\ timer_cancel

should_stop_endless(c) == CancelSeen(c)

should_stop_deaf(c) == c.end_time # None /\ clock >= c.end_time

\* should_stop() of alarm
should_stop(c) ==
    \/ CancelSeen(c)
    \/ c.end_time # None /\ clock >= c.end_time

\* the clock saturates at the latest end time an alarm compares it with
Horizon ==
    LET ends == {co[t].end_time : t \in Tasks} \ {None}
    IN  IF ends = {} THEN 0 ELSE CHOOSE e \in ends : \A f \in ends : f <= e
Advance(k) == Max(clock, Min(clock + k, Horizon))

\* what a device call that returned leaves on the bulb; of the bulb only power
\* and brightness are followed
Apply(l, c) ==
    CASE c[1] = "power" -> [l EXCEPT !.power = c[2]]
      [] c[1] = "bri"   -> [l EXCEPT !.bri = c[2]]
      [] OTHER          -> l

\* the observer follows the effects that are called directly
Watched(t) == op[t].pc = "none"
Observe(t, o) == obs' = [obs EXCEPT ![t] = IF Watched(t) THEN o ELSE obs[t]]

\* the record of one device call that returned
Logged(o, c, perStep) ==
    [o EXCEPT !.last2 = <<o.last2[2], c>>,
              !.offIssued = o.offIssued \/ c = <<"power", FALSE>>,
              !.afterSeen = IF perStep /\ o.sawCancel THEN Bump(o.afterSeen)
                            ELSE o.afterSeen,
              !.loopWrites = IF perStep THEN Bump(o.loopWrites) ELSE o.loopWrites,
              !.nCalls = Min(o.nCalls + 1, CallCap),
              !.lastAwait = "call"]

\* the record of one await asyncio.sleep(d) that returned
Slept(o, d) ==
    [o EXCEPT !.nSleeps = Min(o.nSleeps + 1, CallCap), !.lastSleep = d,
              !.lastAwait = "sleep"]

\* await light.<setter>(value) returns, and the coroutine goes on to nextco
DeviceCall(t, c, perStep, nextco) ==
    /\ light' = Apply(light, c)
    /\ Observe(t, Logged(obs[t], c, perStep))
    /\ co' = [co EXCEPT ![t] = nextco]
    /\ UNCHANGED <<clock, timer_cancel, bridgeVars>>

\* fade_in / fade_out are entered: the first await is set_power(True)
StartFade(t, kind, u, cc) ==
    /\ co[t].pc = "idle"
    /\ co' = [co EXCEPT ![t] = [IdleCo EXCEPT !.pc = "init_power", !.kind = kind,
                                              !.duration = u, !.cc = cc]]
    /\ Observe(t, [IdleObs EXCEPT !.setAt = obs[t].setAt])
    /\ UNCHANGED <<light, clock>>

IsFade(c) == c.kind \in {"fade_in", "fade_out"}

ResumableAlone(t) ==
    \/ op[t].pc = "none"
    \/ handler.loop = "running" /\ \A u \in Tasks \ {t} : op[u].pc \in {"none", "finished"}

\* the coroutine of task t can be resumed: it was called directly (asyncio.run),
\* or it runs on the handler's loop and that loop is running
Resumable(t) == op[t].pc = "none" \/ handler.loop = "running"

FadeAt(t, pc) == Resumable(t) /\ IsFade(co[t]) /\ co[t].pc = pc

FadeInitPower(t) ==
    /\ FadeAt(t, "init_power")
    /\ DeviceCall(t, <<"power", TRUE>>, FALSE, [co[t] EXCEPT !.pc = "init_bri"])

FadeInitBri(t) ==
    /\ FadeAt(t, "init_bri")
    /\ DeviceCall(t, <<"bri", IF co[t].kind = "fade_in" THEN 1 ELSE FullBrightness>>,
                  FALSE, [co[t] EXCEPT !.pc = "init_temp"])

\* the last initial write; steps is computed and the loop is entered with i = 0
FadeInitTemp(t) ==
    /\ FadeAt(t, "init_temp")
    /\ DeviceCall(t, <<"temp", IF co[t].kind = "fade_in" THEN WarmTemp ELSE CoolTemp>>,
                  FALSE, [co[t] EXCEPT !.pc = "loop_check",
                                       !.steps = Steps(co[t].duration), !.i = 0])

\* where a fade goes when the token is seen set at the top of the loop
FadeCancelled(c) == [c EXCEPT !.pc = "returned", !.result = "false"]

\* top of the for loop: if cancel_check and cancel_check(): return False
FadeCheck(t) ==
    /\ FadeAt(t, "loop_check")
    /\ IF CancelSeen(co[t])
       THEN /\ co' = [co EXCEPT ![t] = FadeCancelled(co[t])]
            /\ Observe(t, [obs[t] EXCEPT !.nChecks = @ + 1, !.sawCancel = TRUE])
       ELSE /\ co' = [co EXCEPT ![t].pc = "step_bri"]
            /\ Observe(t, [obs[t] EXCEPT !.nChecks = @ + 1])
    /\ UNCHANGED <<light, clock, timer_cancel, bridgeVars>>

AfterStepBriChecked(c) ==
    IF CancelSeen(c) THEN FadeCancelled(c) ELSE [c EXCEPT !.pc = "step_temp"]

\* a step's brightness write is followed by its temperature write, unchecked
AfterStepBri(c) == [c EXCEPT !.pc = "step_temp"]

FadeStepBri(t) ==
    /\ FadeAt(t, "step_bri")
    /\ light' = Apply(light, <<"bri", StepBrightness(co[t])>>)
    /\ Observe(t, [Logged(obs[t], <<"bri", StepBrightness(co[t])>>, TRUE)
                      EXCEPT !.nBri = @ + 1])
    /\ co' = [co EXCEPT ![t] = AfterStepBri(co[t])]
    /\ UNCHANGED <<clock, timer_cancel, bridgeVars>>

FadeFinishedNoOff(c) == [c EXCEPT !.pc = "returned", !.result = "true"]

\* where a fade goes after the last step's writes
FadeFinished(c) ==
    IF c.kind = "fade_out" THEN [c EXCEPT !.pc = "final_off"]
    ELSE [c EXCEPT !.pc = "returned", !.result = "true"]

ProgressOfNext(c) == <<c.i + 1, c.steps>>

\* progress = i / steps, as the pair of its numerator and denominator
Progress(c) == <<c.i, c.steps>>

\* step_delay = (duration_minutes * 60) / steps
StepDelay(c) == c.duration \div c.steps

AfterStepTempSleeping(c) ==
    IF c.i <= c.steps THEN [c EXCEPT !.pc = "step_sleep"] ELSE FadeFinished(c)

\* if i < steps: await asyncio.sleep(step_delay); else the loop is left
AfterStepTemp(c) ==
    IF c.i < c.steps THEN [c EXCEPT !.pc = "step_sleep"] ELSE FadeFinished(c)

\* the temperature write, progress_callback, then sleep or leave the loop
FadeStepTemp(t) ==
    /\ FadeAt(t, "step_temp")
    /\ light' = Apply(light, <<"temp", StepTemp(co[t])>>)
    /\ Observe(t, [Logged(obs[t], <<"temp", StepTemp(co[t])>>, TRUE)
                      EXCEPT !.nTemp = @ + 1,
                             !.progress = Append(@, Progress(co[t]))])
    /\ co' = [co EXCEPT ![t] = AfterStepTemp(co[t])]
    /\ UNCHANGED <<clock, timer_cancel, bridgeVars>>

\* await asyncio.sleep(step_delay) returns; next iteration of the for loop
FadeSleep(t) ==
    /\ FadeAt(t, "step_sleep")
    /\ co' = [co EXCEPT ![t].pc = "loop_check", ![t].i = @ + 1]
    /\ clock' = Advance(StepDelay(co[t]))
    /\ Observe(t, Slept(obs[t], StepDelay(co[t])))
    /\ UNCHANGED <<light, timer_cancel, bridgeVars>>

\* fade_out only: await light.set_power(False); return True
FadeOutPowerOff(t) ==
    /\ FadeAt(t, "final_off")
    /\ DeviceCall(t, <<"power", FALSE>>, FALSE,
                  [co[t] EXCEPT !.pc = "returned", !.result = "true"])

\* alarm is entered: the first await is set_power(True)
StartAlarm(t, colour, style, u, cc) ==
    /\ co[t].pc = "idle"
    /\ co' = [co EXCEPT ![t] = [IdleCo EXCEPT !.pc = "init_power", !.kind = "alarm",
                                              !.duration = u, !.style = style,
                                              !.cc = cc, !.colour = colour]]
    /\ Observe(t, [IdleObs EXCEPT !.setAt = obs[t].setAt])
    /\ UNCHANGED <<light, clock>>

IsAlarm(c) == c.kind = "alarm"

AlarmAt(t, pc) == Resumable(t) /\ IsAlarm(co[t]) /\ co[t].pc = pc

AlarmInitPower(t) ==
    /\ AlarmAt(t, "init_power")
    /\ DeviceCall(t, <<"power", TRUE>>, FALSE, [co[t] EXCEPT !.pc = "init_bri"])

AlarmInitBri(t) ==
    /\ AlarmAt(t, "init_bri")
    /\ DeviceCall(t, <<"bri", FullBrightness>>, FALSE, [co[t] EXCEPT !.pc = "init_xy"])

EndTimeAlways(start, u) == start + u

\* end_time = start_time + duration_minutes * 60 if duration_minutes > 0 else None
EndTime(start, u) == IF u > 0 THEN start + u ELSE None

\* the colour write, then start_time and end_time are taken and the loop of the
\* style is entered (state = True for flash and fast)
AlarmInitXY(t) ==
    /\ AlarmAt(t, "init_xy")
    /\ DeviceCall(t, <<"xy", co[t].colour>>, FALSE,
                  [co[t] EXCEPT !.pc = "while_check", !.state = TRUE,
                                !.end_time = EndTime(clock, co[t].duration)])

\* what a stop check that answered True has seen
Seen(o, c) == [o EXCEPT !.sawCancel = @ \/ CancelSeen(c),
                        !.sawStop = @ \/ should_stop(c)]

AlarmExitNoRestore(c) == [c EXCEPT !.pc = "returned", !.result = "true"]

\* leaving the loop of the style leads to the restore
AlarmExit(c) == [c EXCEPT !.pc = "restore_power"]

\* while not should_stop(): of either loop
AlarmWhileCheck(t) ==
    /\ AlarmAt(t, "while_check")
    /\ Observe(t, Seen(obs[t], co[t]))
    /\ co' = [co EXCEPT ![t] =
                IF should_stop(co[t]) THEN AlarmExit(co[t])
                ELSE IF co[t].style = "breathing"
                     THEN [co[t] EXCEPT !.pc = "down_check", !.b = BreathHigh]
                     ELSE [co[t] EXCEPT !.pc = "toggle_power", !.state = ~co[t].state]]
    /\ UNCHANGED <<light, clock, timer_cancel, bridgeVars>>

\* for b in range(254, 20, -15): if should_stop(): break
BreathDownCheck(t) ==
    /\ AlarmAt(t, "down_check")
    /\ Observe(t, Seen(obs[t], co[t]))
    /\ co' = [co EXCEPT ![t].pc = IF should_stop(co[t]) THEN "mid_check" ELSE "down_bri"]
    /\ UNCHANGED <<light, clock, timer_cancel, bridgeVars>>

\* await light.set_brightness(b) of a ramp
RampWrite(t, pc) ==
    /\ light' = Apply(light, <<"bri", co[t].b>>)
    /\ Observe(t, [Logged(obs[t], <<"bri", co[t].b>>, TRUE)
                      EXCEPT !.afterCancel = IF CancelSeen(co[t]) THEN Bump(@) ELSE @])
    /\ co' = [co EXCEPT ![t].pc = pc]
    /\ UNCHANGED <<clock, timer_cancel, bridgeVars>>

BreathDownBri(t) ==
    /\ AlarmAt(t, "down_bri")
    /\ RampWrite(t, "down_sleep")

AfterDownSleepToLow(c) ==
    IF c.b > BreathLow
    THEN [c EXCEPT !.pc = "down_check", !.b = Max(@ - BreathStep, BreathLow)]
    ELSE [c EXCEPT !.pc = "mid_check"]

\* range(254, 20, -15) yields its next value, or the ramp is over
AfterDownSleep(c) ==
    IF c.b - BreathStep > BreathLow
    THEN [c EXCEPT !.pc = "down_check", !.b = @ - BreathStep]
    ELSE [c EXCEPT !.pc = "mid_check"]

\* await asyncio.sleep(0.05) returns; range(254, 20, -15) yields its next value
BreathDownSleep(t) ==
    /\ AlarmAt(t, "down_sleep")
    /\ \E late \in 0..MaxLate : clock' = Advance(BreathInterval + late)
    /\ co' = [co EXCEPT ![t] = AfterDownSleep(co[t])]
    /\ Observe(t, Slept(obs[t], BreathInterval))
    /\ UNCHANGED <<light, timer_cancel, bridgeVars>>

\* between the ramps: if should_stop(): break
BreathMidCheck(t) ==
    /\ AlarmAt(t, "mid_check")
    /\ Observe(t, Seen(obs[t], co[t]))
    /\ co' = [co EXCEPT ![t] =
                IF should_stop(co[t]) THEN AlarmExit(co[t])
                ELSE [co[t] EXCEPT !.pc = "up_check", !.b = BreathLow]]
    /\ UNCHANGED <<light, clock, timer_cancel, bridgeVars>>

\* for b in range(20, 254, 15): if should_stop(): break
BreathUpCheck(t) ==
    /\ AlarmAt(t, "up_check")
    /\ Observe(t, Seen(obs[t], co[t]))
    /\ co' = [co EXCEPT ![t].pc = IF should_stop(co[t]) THEN "while_check" ELSE "up_bri"]
    /\ UNCHANGED <<light, clock, timer_cancel, bridgeVars>>

BreathUpBri(t) ==
    /\ AlarmAt(t, "up_bri")
    /\ RampWrite(t, "up_sleep")

BreathUpSleep(t) ==
    /\ AlarmAt(t, "up_sleep")
    /\ \E late \in 0..MaxLate : clock' = Advance(BreathInterval + late)
    /\ co' = [co EXCEPT ![t] =
                IF co[t].b + BreathStep < BreathHigh
                THEN [co[t] EXCEPT !.pc = "up_check", !.b = @ + BreathStep]
                ELSE [co[t] EXCEPT !.pc = "while_check"]]
    /\ Observe(t, Slept(obs[t], BreathInterval))
    /\ UNCHANGED <<light, timer_cancel, bridgeVars>>

IntervalOfFlash(style) == FlashInterval

\* interval = 0.2 if style == "fast" else 0.5
Interval(style) == IF style = "fast" THEN FastInterval ELSE FlashInterval

\* await light.set_power(state) of the flash loop
FlashPower(t) ==
    /\ AlarmAt(t, "toggle_power")
    /\ light' = Apply(light, <<"power", co[t].state>>)
    /\ Observe(t, [Logged(obs[t], <<"power", co[t].state>>, TRUE)
                      EXCEPT !.afterCancel = IF CancelSeen(co[t]) THEN Bump(@) ELSE @,
                             !.alternates = @ /\ co[t].state # obs[t].prevToggle,
                             !.prevToggle = co[t].state])
    /\ co' = [co EXCEPT ![t].pc = "toggle_sleep"]
    /\ UNCHANGED <<clock, timer_cancel, bridgeVars>>

AfterFlashSleepPreempted(c) ==
    IF CancelSeen(c) THEN AlarmExit(c) ELSE [c EXCEPT !.pc = "while_check"]

\* the sleep of a flash cycle runs out and the while condition is next
AfterFlashSleep(c) == [c EXCEPT !.pc = "while_check"]

FlashSleep(t) ==
    /\ AlarmAt(t, "toggle_sleep")
    /\ \E late \in 0..MaxLate : clock' = Advance(Interval(co[t].style) + late)
    /\ co' = [co EXCEPT ![t] = AfterFlashSleep(co[t])]
    /\ Observe(t, [Slept(obs[t], Interval(co[t].style))
                      EXCEPT !.sleepsAfterCancel =
                                 IF CancelSeen(co[t]) THEN Bump(@) ELSE @])
    /\ UNCHANGED <<light, timer_cancel, bridgeVars>>

\* after either loop: await light.set_power(True)
AlarmRestorePower(t) ==
    /\ AlarmAt(t, "restore_power")
    /\ DeviceCall(t, <<"power", TRUE>>, FALSE, [co[t] EXCEPT !.pc = "restore_bri"])

\* await light.set_brightness(254); return True
AlarmRestoreBri(t) ==
    /\ AlarmAt(t, "restore_bri")
    /\ DeviceCall(t, <<"bri", FullBrightness>>, FALSE,
                  [co[t] EXCEPT !.pc = "returned", !.result = "true"])

\* the awaits that are device calls
DevicePcs == {"init_power", "init_bri", "init_temp", "init_xy", "step_bri",
              "step_temp", "final_off", "down_bri", "up_bri", "toggle_power",
              "restore_power", "restore_bri"}
SleepPcs == {"step_sleep", "down_sleep", "up_sleep", "toggle_sleep"}
CheckPcs == {"loop_check", "while_check", "down_check", "mid_check", "up_check"}
EndPcs == {"returned", "raised"}

RaisedThenCleanup(c) ==
    IF IsAlarm(c) THEN AlarmExit(c)
    ELSE IF c.kind = "fade_out" THEN [c EXCEPT !.pc = "final_off"]
    ELSE [c EXCEPT !.pc = "raised", !.result = "error"]

\* where an effect goes when the device call it awaits raises: no try, except
\* or finally surrounds the call, so the exception ends the coroutine
Raised(c) == [c EXCEPT !.pc = "raised", !.result = "error"]

\* a device call raises: the exception leaves the effect at that await
DeviceRaise(t) ==
    /\ Resumable(t) /\ co[t].pc \in DevicePcs
    /\ co' = [co EXCEPT ![t] = Raised(co[t])]
    /\ Observe(t, [obs[t] EXCEPT !.raisedAt = co[t].pc])
    /\ UNCHANGED <<light, clock, timer_cancel, bridgeVars>>

\* one step of the effect coroutine of task t
FadeStep(t) ==
    \/ FadeInitPower(t)
    \/ FadeInitBri(t)
    \/ FadeInitTemp(t)
    \/ FadeCheck(t)
    \/ FadeStepBri(t)
    \/ FadeStepTemp(t)
    \/ FadeSleep(t)
    \/ FadeOutPowerOff(t)

AlarmStep(t) ==
    \/ AlarmInitPower(t)
    \/ AlarmInitBri(t)
    \/ AlarmInitXY(t)
    \/ AlarmWhileCheck(t)
    \/ BreathDownCheck(t)
    \/ BreathDownBri(t)
    \/ BreathDownSleep(t)
    \/ BreathMidCheck(t)
    \/ BreathUpCheck(t)
    \/ BreathUpBri(t)
    \/ BreathUpSleep(t)
    \/ FlashPower(t)
    \/ FlashSleep(t)
    \/ AlarmRestorePower(t)
    \/ AlarmRestoreBri(t)

\* --------------------------------------------- the engine called directly
\* One caller (the CLI, or a test harness holding the token) runs one effect
\* on task 1; the token may be set at any moment by its owner.
Caller == CHOOSE t \in Tasks : \A u \in Tasks : t <= u

InitLight == [power |-> FALSE, bri |-> FullBrightness]

EngineInit ==
    /\ co = [t \in Tasks |-> IdleCo]
    /\ obs = [t \in Tasks |-> IdleObs]
    /\ light = InitLight
    /\ clock = 0
    /\ timer_cancel = FALSE

IdleOp == [pc |-> "none", kind |-> "none", effect |-> "none", wait |-> 0,
           duration |-> 0, call |-> NoCall, ndone |-> 0, afterStop |-> FALSE,
           cancelSince |-> FALSE, sawCancel |-> FALSE, failed |-> FALSE,
           cancelInWait |-> FALSE]

NoHandler == [thread |-> FALSE, loop |-> "none", started |-> FALSE, ready |-> <<>>,
              nstops |-> 0]

\* the entries of the schedule form: when_var, time_hour_var, time_min_var and
\* delay_var as the text typed, effect_var
NoForm == [when |-> "time", hour |-> <<>>, minute |-> <<>>, delay |-> <<>>,
           effect |-> "alarm", duration |-> <<>>]

\* the last run-now click: how many there were, whether _timer_running was
\* true when it was made, and the form it was made with
NoClick == [n |-> 0, running |-> FALSE, form |-> NoForm]

NoUi == [timer_running |-> FALSE, power_state |-> FALSE, light |-> "none",
         queue |-> <<>>, nsub |-> 0, form |-> NoForm, status |-> "none",
         click |-> NoClick]

\* the arguments of a command line, or the saved schedule it loads
NoCmd == [kind |-> "none", at |-> <<>>, use_time |-> FALSE, hour |-> 0, minute |-> 0,
          delay |-> 0, effect |-> "none"]

\* now is the wall clock (datetime.now(), time.time()) in seconds since midnight
\* steps and i are the list run_routine iterates and its position in it; log
\* records, per step, that its wait began, its effect was called and returned
\* args and value are the arguments and the outcome of a colour conversion
NoCaller == [pc |-> "new", task |-> 0, result |-> "none", cmd |-> NoCmd,
             now |-> 0, start |-> 0, until |-> 0, steps |-> <<>>, i |-> 0,
             log |-> <<>>, args |-> <<>>, value |-> <<>>]

BridgeIdle ==
    /\ handler = NoHandler
    /\ op = [t \in Tasks |-> IdleOp]
    /\ fut = [t \in Tasks |-> "none"]
    /\ ui = NoUi
    /\ caller = NoCaller

Init ==
    /\ EngineInit
    /\ BridgeIdle

InvokeFade ==
    /\ \E kind \in {"fade_in", "fade_out"}, u \in FadeDurs, cc \in BOOLEAN :
          StartFade(Caller, kind, u, cc)
    /\ UNCHANGED <<timer_cancel, bridgeVars>>

InvokeAlarm ==
    /\ \E style \in Styles, u \in AlarmDurs, cc \in BOOLEAN :
          StartAlarm(Caller, "red", style, u, cc)
    /\ UNCHANGED <<timer_cancel, bridgeVars>>

ToggleCancel(flag) == ~flag

\* self._timer_cancel = True
SetCancel(flag) == TRUE

\* the owner of the token sets it
SetToken ==
    /\ ~timer_cancel
    /\ timer_cancel' = SetCancel(timer_cancel)
    /\ obs' = [t \in Tasks |-> [obs[t] EXCEPT !.setAt = co[t].pc]]
    /\ UNCHANGED <<co, light, clock, bridgeVars>>

Next ==
    \/ InvokeFade
    \/ InvokeAlarm
    \/ SetToken
    \/ FadeStep(Caller)
    \/ AlarmStep(Caller)
    \/ DeviceRaise(Caller)

Spec == Init /\ [][Next]_vars

\* the owner sets the token once more, while it is already set
CancelAgain ==
    /\ timer_cancel
    /\ timer_cancel' = SetCancel(timer_cancel)
    /\ obs' = [t \in Tasks |-> [obs[t] EXCEPT !.againAt = co[t].pc]]
    /\ UNCHANGED <<co, light, clock, bridgeVars>>

CancelNext ==
    \/ Next
    \/ CancelAgain

CancelSpec == Init /\ [][CancelNext]_vars

\* the event loop keeps running the coroutine; device calls that return do so
FairSpec == Spec /\ WF_vars(FadeStep(Caller)) /\ WF_vars(AlarmStep(Caller))

\* ---------------------------------------------------------- AsyncHandler
\* start(): the thread is started and the caller waits on _started
HandlerStart ==
    /\ caller.pc = "new" /\ ~handler.thread
    /\ handler' = [handler EXCEPT !.thread = TRUE]
    /\ caller' = [caller EXCEPT !.pc = "in_start"]
    /\ UNCHANGED <<engineVars, timer_cancel, op, fut, ui>>

\* _run_loop: self._loop = asyncio.new_event_loop()
ThreadNewLoop ==
    /\ handler.thread /\ handler.loop = "none"
    /\ handler' = [handler EXCEPT !.loop = "created"]
    /\ UNCHANGED <<engineVars, timer_cancel, op, fut, ui, caller>>

\* _run_loop: self._started.set()
ThreadSetStarted ==
    /\ handler.loop = "created" /\ ~handler.started
    /\ handler' = [handler EXCEPT !.started = TRUE]
    /\ UNCHANGED <<engineVars, timer_cancel, op, fut, ui, caller>>

\* _run_loop: self._loop.run_forever()
ThreadRunForever ==
    /\ handler.loop = "created" /\ handler.started
    /\ handler' = [handler EXCEPT !.loop = "running"]
    /\ UNCHANGED <<engineVars, timer_cancel, op, fut, ui, caller>>

StartedNoWait(h) == TRUE

\* self._started.wait()
StartedWait(h) == h.started

\* start() returns once _started is set
StartReturn ==
    /\ caller.pc = "in_start" /\ StartedWait(handler)
    /\ caller' = [caller EXCEPT !.pc = "ready"]
    /\ UNCHANGED <<engineVars, timer_cancel, handler, op, fut, ui>>

\* what run_coroutine_threadsafe answers for a loop in the given state: the
\* callback is queued on the loop and a pending future is returned
Accepted(loopState) == "pending"

\* a task slot is free when it holds no coroutine or one that has ended
Free(t) == op[t].pc \in {"none", "finished"}
InFlight(t) == ~Free(t)
HasFree == \E t \in Tasks : Free(t)
FreeSlot == CHOOSE t \in Tasks : Free(t) /\ \A u \in Tasks : Free(u) => t <= u

\* what is kept of a coroutine that has ended
FinishedOp(n) == [IdleOp EXCEPT !.pc = "finished", !.ndone = n]

\* asyncio.run_coroutine_threadsafe(coro, self._loop): the coroutine becomes
\* task t, queued on the loop by call_soon_threadsafe
Submit(t, frame) ==
    /\ t \in Tasks
    /\ handler.loop # "none"
    /\ op' = [op EXCEPT ![t] = [frame EXCEPT !.pc = "submitted",
                                             !.afterStop = handler.nstops > 0]]
    /\ fut' = [fut EXCEPT ![t] = Accepted(handler.loop)]
    /\ handler' = [handler EXCEPT !.ready = Append(@, <<"task", t>>)]

\* the coroutine of a single light setter, as the GUI's controls submit it
SetterCalls == {<<"power", TRUE>>, <<"power", FALSE>>}
SetterFrame(c) == [IdleOp EXCEPT !.kind = "setter", !.call = c]

\* run_async(coro) without callback
RunAsync ==
    /\ caller.pc = "ready" /\ HasFree
    /\ \E c \in SetterCalls : Submit(FreeSlot, SetterFrame(c))
    /\ UNCHANGED <<engineVars, timer_cancel, ui, caller>>

\* run(coro): submit, then future.result(timeout=30)
Run ==
    /\ caller.pc = "ready" /\ HasFree
    /\ \E c \in SetterCalls : Submit(FreeSlot, SetterFrame(c))
    /\ caller' = [caller EXCEPT !.pc = "in_run", !.task = FreeSlot]
    /\ UNCHANGED <<engineVars, timer_cancel, ui>>

ResultSwallowed(f) == "ok"

\* what future.result gives for a future that is done: its result, or its
\* exception raised again
ResultOf(f) == IF f = "done" THEN "ok" ELSE "error"

\* future.result returns the result or re-raises the coroutine's exception
RunReturn ==
    /\ caller.pc = "in_run" /\ fut[caller.task] \in {"done", "failed"}
    /\ caller' = [caller EXCEPT !.pc = "ready", !.result = ResultOf(fut[caller.task])]
    /\ UNCHANGED <<engineVars, timer_cancel, handler, op, fut, ui>>

\* future.result(timeout=30) gives up on a future that is still pending
RunTimeout ==
    /\ caller.pc = "in_run" /\ fut[caller.task] = "pending"
    /\ caller' = [caller EXCEPT !.pc = "ready", !.result = "timeout"]
    /\ UNCHANGED <<engineVars, timer_cancel, handler, op, fut, ui>>

\* stop(): if self._loop: self._loop.call_soon_threadsafe(self._loop.stop)
Stop ==
    /\ caller.pc = "ready" /\ handler.nstops < MaxStops
    /\ handler' = [handler EXCEPT
                     !.ready = IF handler.loop # "none" THEN Append(@, <<"stop", 0>>) ELSE @,
                     !.nstops = @ + 1]
    /\ UNCHANGED <<engineVars, timer_cancel, op, fut, ui, caller>>

\* where a submitted coroutine is first suspended or checked
FirstPc(frame) ==
    IF frame.kind = "setter" THEN "call"
    ELSE IF frame.wait > 0 THEN "wait_check" ELSE "post_wait"

\* the running loop takes the next handle of its ready queue: a submitted
\* coroutine is started as a task, or loop.stop ends run_forever
LoopRunHandle ==
    /\ handler.loop = "running" /\ handler.ready # <<>>
    /\ LET h == Head(handler.ready) IN
         IF h[1] = "stop"
         THEN /\ handler' = [handler EXCEPT !.loop = "stopped", !.ready = Tail(@)]
              /\ op' = op
         ELSE /\ handler' = [handler EXCEPT !.ready = Tail(@)]
              /\ op' = [op EXCEPT ![h[2]].pc = FirstPc(op[h[2]])]
    /\ UNCHANGED <<engineVars, timer_cancel, fut, ui, caller>>

\* the setter's device call returns and the coroutine is done
SetterCall(t) ==
    /\ handler.loop = "running" /\ op[t].kind = "setter" /\ op[t].pc = "call"
    /\ light' = Apply(light, op[t].call)
    /\ op' = [op EXCEPT ![t] = FinishedOp(0)]
    /\ fut' = [fut EXCEPT ![t] = "done"]
    /\ UNCHANGED <<co, obs, clock, timer_cancel, handler, ui, caller>>

\* the setter's device call raises: the future carries the exception
SetterRaise(t) ==
    /\ handler.loop = "running" /\ op[t].kind = "setter" /\ op[t].pc = "call"
    /\ op' = [op EXCEPT ![t] = FinishedOp(0)]
    /\ fut' = [fut EXCEPT ![t] = "failed"]
    /\ UNCHANGED <<engineVars, timer_cancel, handler, ui, caller>>

\* A thread that owns an AsyncHandler: start() once, then run, run_async and
\* stop in any order.
BridgeNext ==
    \/ HandlerStart
    \/ ThreadNewLoop
    \/ ThreadSetStarted
    \/ ThreadRunForever
    \/ StartReturn
    \/ RunAsync
    \/ Run
    \/ RunReturn
    \/ RunTimeout
    \/ Stop
    \/ LoopRunHandle
    \/ \E t \in Tasks : SetterCall(t)
    \/ \E t \in Tasks : SetterRaise(t)

BridgeSpec == Init /\ [][BridgeNext]_vars

\* the handler's thread runs (_run_loop goes on to run_forever) and the running
\* loop keeps taking the handles of its ready queue
FairBridgeSpec ==
    /\ BridgeSpec
    /\ WF_vars(ThreadNewLoop)
    /\ WF_vars(ThreadSetStarted)
    /\ WF_vars(ThreadRunForever)
    /\ WF_vars(LoopRunHandle)

\* ------------------------------------------------------ HueControllerGUI
\* After construction: the handler is started (start() has returned, its
\* thread is about to enter run_forever), nothing runs, the light is not
\* connected yet, and the Tk thread is in mainloop.
GuiInit ==
    /\ EngineInit
    /\ handler = [NoHandler EXCEPT !.thread = TRUE, !.loop = "created", !.started = TRUE]
    /\ op = [t \in Tasks |-> IdleOp]
    /\ fut = [t \in Tasks |-> "none"]
    /\ ui = NoUi
    /\ caller = [NoCaller EXCEPT !.pc = "ready"]

\* the alarm style chosen in the GUI: alarm_style_var.get()
GuiStyles == Styles

\* wait_seconds as _get_wait_seconds returns it for a valid entry, in seconds
GuiWaits == 0..MaxWait
\* valid fade durations of the duration field: k sixths of a minute
GuiFadeDurs == {k * (UnitsPerMinute \div StepsPerMinute) : k \in 1..MaxGuiSteps}

\* self.root.after(0, callback), called from the loop's thread
After(cb) == ui' = [ui EXCEPT !.queue = Append(@, cb)]

KeepCancel(flag) == flag

\* self._timer_cancel = False, on the way to a submission
ResetCancel(flag) == FALSE

\* the part of _run_now shared by both effects, once the entries are valid:
\* clear the token, mark running, submit the coroutine
RunNowSubmit(frame) ==
    /\ caller.pc = "ready" /\ HasFree /\ ui.nsub < MaxSubmits
    /\ ~ui.timer_running
    /\ timer_cancel' = ResetCancel(timer_cancel)
    /\ ui' = [ui EXCEPT !.timer_running = TRUE, !.light = "ok", !.nsub = @ + 1]
    /\ Submit(FreeSlot, frame)
    /\ UNCHANGED <<engineVars, caller>>

\* _run_now with effect = alarm and a valid time or delay
RunNowAlarm ==
    \E w \in GuiWaits :
        RunNowSubmit([IdleOp EXCEPT !.kind = "run_alarm", !.effect = "alarm", !.wait = w])

\* _run_now with effect = fade_in or fade_out, a valid time and duration > 0
RunNowFade ==
    \E e \in {"fade_in", "fade_out"}, w \in GuiWaits, d \in GuiFadeDurs :
        RunNowSubmit([IdleOp EXCEPT !.kind = "run_effect", !.effect = e, !.wait = w,
                                    !.duration = d])

\* the coroutine is inside its wait loop: suspended in the loop's sleep, or
\* about to evaluate the loop's condition with time left
Waiting(t) == op[t].pc \in {"wait_check", "wait_sleep"} /\ op[t].wait > 0

\* _cancel_timer, the command of the stop button, which _show_running_state
\* shows exactly while _timer_running is true
CancelTimer ==
    /\ caller.pc = "ready" /\ ui.timer_running
    /\ timer_cancel' = SetCancel(timer_cancel)
    /\ op' = [t \in Tasks |-> IF InFlight(t)
                              THEN [op[t] EXCEPT !.cancelSince = TRUE,
                                                 !.cancelInWait = @ \/ Waiting(t)]
                              ELSE op[t]]
    /\ UNCHANGED <<engineVars, handler, fut, ui, caller>>

\* _on_timer_done
OnTimerDone(u) == [u EXCEPT !.timer_running = FALSE]

\* Tk runs the oldest callback queued with after(0, ...)
UiCallback ==
    /\ caller.pc = "ready" /\ ui.queue # <<>>
    /\ LET cb == Head(ui.queue)
           rest == [ui EXCEPT !.queue = Tail(@)]
       IN  ui' = IF cb[1] = "done" THEN OnTimerDone(rest)
                 ELSE [rest EXCEPT !.power_state = cb[2]]
    /\ UNCHANGED <<engineVars, timer_cancel, handler, op, fut, caller>>

IsGuiOp(t) == op[t].kind \in {"run_alarm", "run_effect"}
OpAt(t, pc) == handler.loop = "running" /\ IsGuiOp(t) /\ op[t].pc = pc

\* the wait branch that saw the token: root.after(0, self._on_timer_done); return
CancelledInWait(t) ==
    /\ op' = [op EXCEPT ![t].pc = "cancel_return", ![t].sawCancel = TRUE,
                        ![t].ndone = @ + 1]
    /\ After(<<"done", 0>>)

\* while datetime.now() < end_wait: if self._timer_cancel: ...
OpWaitCheck(t) ==
    /\ OpAt(t, "wait_check")
    /\ IF op[t].wait = 0
       THEN op' = [op EXCEPT ![t].pc = "post_wait"] /\ ui' = ui
       ELSE IF timer_cancel
            THEN CancelledInWait(t)
            ELSE op' = [op EXCEPT ![t].pc = "wait_sleep"] /\ ui' = ui
    /\ UNCHANGED <<engineVars, timer_cancel, handler, fut, caller>>

\* await asyncio.sleep(1) of the wait loop returns
OpWaitSleep(t) ==
    /\ OpAt(t, "wait_sleep")
    /\ op' = [op EXCEPT ![t].pc = "wait_check", ![t].wait = @ - 1]
    /\ UNCHANGED <<engineVars, timer_cancel, handler, fut, ui, caller>>

\* after the wait: if self._timer_cancel: ...; else the effect is called with
\* cancel_check reading _timer_cancel
OpPostWait(t) ==
    /\ OpAt(t, "post_wait")
    /\ IF timer_cancel
       THEN CancelledInWait(t) /\ UNCHANGED engineVars
       ELSE /\ op' = [op EXCEPT ![t].pc = "effect"]
            /\ ui' = ui
            /\ IF op[t].effect = "alarm"
               THEN \E style \in GuiStyles : StartAlarm(t, "red", style, 0, TRUE)
               ELSE StartFade(t, op[t].effect, op[t].duration, TRUE)
    /\ UNCHANGED <<timer_cancel, handler, fut, caller>>

\* the frame of an effect that has ended is gone once its caller goes on
EffectFrameDropped(t) ==
    /\ co' = [co EXCEPT ![t] = IdleCo]
    /\ obs' = obs

\* the effect returned: run_effect queues the _power_state update of a fade
\* that completed, run_alarm queues _power_state = True
OpAfterEffect(t) ==
    /\ OpAt(t, "effect") /\ co[t].pc = "returned"
    /\ op' = [op EXCEPT ![t].pc = "finally"]
    /\ IF op[t].effect = "alarm" THEN After(<<"power_state", TRUE>>)
       ELSE IF co[t].result = "true"
            THEN After(<<"power_state", op[t].effect = "fade_in">>)
            ELSE ui' = ui
    /\ EffectFrameDropped(t)
    /\ UNCHANGED <<light, clock, timer_cancel, handler, fut, caller>>

\* the effect raised: except Exception queues the error status
OpExcept(t) ==
    /\ OpAt(t, "effect") /\ co[t].pc = "raised"
    /\ op' = [op EXCEPT ![t].pc = "finally", ![t].failed = TRUE]
    /\ EffectFrameDropped(t)
    /\ UNCHANGED <<light, clock, timer_cancel, handler, fut, ui, caller>>

\* finally: self.root.after(0, self._on_timer_done); the coroutine ends
OpFinally(t) ==
    /\ handler.loop = "running" /\ IsGuiOp(t)
    /\ op[t].pc \in {"finally", "cancel_return"}
    /\ op' = [op EXCEPT ![t] = FinishedOp(op[t].ndone + 1)]
    /\ After(<<"done", 0>>)
    /\ fut' = [fut EXCEPT ![t] = "done"]
    /\ UNCHANGED <<engineVars, timer_cancel, handler, caller>>

GuiNext ==
    \/ ThreadRunForever
    \/ LoopRunHandle
    \/ RunNowAlarm
    \/ RunNowFade
    \/ CancelTimer
    \/ UiCallback
    \/ \E t \in Tasks : OpWaitCheck(t)
    \/ \E t \in Tasks : OpWaitSleep(t)
    \/ \E t \in Tasks : OpPostWait(t)
    \/ \E t \in Tasks : FadeStep(t)
    \/ \E t \in Tasks : AlarmStep(t)
    \/ \E t \in Tasks : DeviceRaise(t)
    \/ \E t \in Tasks : OpAfterEffect(t)
    \/ \E t \in Tasks : OpExcept(t)
    \/ \E t \in Tasks : OpFinally(t)

GuiSpec == GuiInit /\ [][GuiNext]_vars

\* ------------------------------------------------------ closing the window
\* _on_close: self._timer_cancel = True; self._async.stop(); self.root.destroy().
\* After destroy the Tk thread runs no callback and takes no click any more.
OnClose ==
    /\ caller.pc = "ready"
    /\ timer_cancel' = TRUE
    /\ handler' = [handler EXCEPT !.ready = Append(@, <<"stop", 0>>), !.nstops = @ + 1]
    /\ caller' = [caller EXCEPT !.pc = "closed"]
    /\ UNCHANGED <<engineVars, op, fut, ui>>

\* A session in which the stop button is never used: effects are started with
\* run-now, and at some moment the window is closed.
CloseNext ==
    \/ ThreadRunForever
    \/ LoopRunHandle
    \/ RunNowAlarm
    \/ RunNowFade
    \/ UiCallback
    \/ OnClose
    \/ \E t \in Tasks : OpWaitCheck(t)
    \/ \E t \in Tasks : OpWaitSleep(t)
    \/ \E t \in Tasks : OpPostWait(t)
    \/ \E t \in Tasks : FadeStep(t)
    \/ \E t \in Tasks : AlarmStep(t)
    \/ \E t \in Tasks : DeviceRaise(t)
    \/ \E t \in Tasks : OpAfterEffect(t)
    \/ \E t \in Tasks : OpExcept(t)
    \/ \E t \in Tasks : OpFinally(t)

CloseSpec == GuiInit /\ [][CloseNext]_vars

\* ------------------------------------------------- the manual controls
\* the value the brightness slider is set to
SliderValues == {128}

\* _toggle_power: _power_state is flipped, then set_power is run and waited for
TogglePower ==
    /\ caller.pc = "ready" /\ HasFree /\ ui.nsub < MaxSubmits
    /\ ui' = [ui EXCEPT !.power_state = ~@, !.light = "ok", !.nsub = @ + 1]
    /\ Submit(FreeSlot, SetterFrame(<<"power", ~ui.power_state>>))
    /\ caller' = [caller EXCEPT !.pc = "in_run", !.task = FreeSlot]
    /\ UNCHANGED <<engineVars, timer_cancel>>

\* _set_brightness, once the slider's debounce has fired: if self.light, then
\* set_brightness is run and waited for
SetBrightness ==
    /\ caller.pc = "ready" /\ ui.light = "ok" /\ HasFree /\ ui.nsub < MaxSubmits
    /\ ui' = [ui EXCEPT !.nsub = @ + 1]
    /\ \E v \in SliderValues : Submit(FreeSlot, SetterFrame(<<"bri", v>>))
    /\ caller' = [caller EXCEPT !.pc = "in_run", !.task = FreeSlot]
    /\ UNCHANGED <<engineVars, timer_cancel>>

\* run-now as the first thing done in the session
ControlRunNow ==
    /\ ui.nsub = 0
    /\ RunNowAlarm \/ RunNowFade

\* A session in which one effect is started with run-now and the power button
\* and the brightness slider are used while it runs and after it; the device
\* calls of the effect return, those of the controls return or raise. In
\* _toggle_power and _set_brightness, run() returns or raises into
\* "except Exception: pass".
ControlNext ==
    \/ ThreadRunForever
    \/ LoopRunHandle
    \/ ControlRunNow
    \/ CancelTimer
    \/ UiCallback
    \/ TogglePower
    \/ SetBrightness
    \/ RunReturn
    \/ RunTimeout
    \/ \E t \in Tasks : SetterCall(t)
    \/ \E t \in Tasks : SetterRaise(t)
    \/ \E t \in Tasks : OpWaitCheck(t)
    \/ \E t \in Tasks : OpWaitSleep(t)
    \/ \E t \in Tasks : OpPostWait(t)
    \/ \E t \in Tasks : FadeStep(t)
    \/ \E t \in Tasks : AlarmStep(t)
    \/ \E t \in Tasks : OpAfterEffect(t)
    \/ \E t \in Tasks : OpFinally(t)

ControlSpec == GuiInit /\ [][ControlNext]_vars

\* ------------------------------------------------------------- triggers
SecondsPerMinute == 60

Digits == <<"0", "1", "2", "3", "4", "5", "6", "7", "8", "9">>
IsDigit(ch) == \E i \in 1..Len(Digits) : Digits[i] = ch
DigitVal(ch) == (CHOOSE i \in 1..Len(Digits) : Digits[i] = ch) - 1
AllDigits(s) == s # <<>> /\ \A i \in 1..Len(s) : IsDigit(s[i])

RECURSIVE NatOf(_)
NatOf(s) == IF s = <<>> THEN 0
            ELSE 10 * NatOf(SubSeq(s, 1, Len(s) - 1)) + DigitVal(s[Len(s)])

\* int(text) and float(text) for the texts entered here: an optional sign and
\* decimal digits; anything else raises ValueError
Parses(s) ==
    \/ AllDigits(s)
    \/ Len(s) > 1 /\ s[1] \in {"-", "+"} /\ AllDigits(Tail(s))
NumberOf(s) ==
    IF s[1] = "-" THEN 0 - NatOf(Tail(s))
    ELSE IF s[1] = "+" THEN NatOf(Tail(s)) ELSE NatOf(s)

\* 0 <= hour <= 23 and 0 <= minute <= 59
ValidClock(hour, minute) == hour \in 0..23 /\ minute \in 0..59

RolledTarget(now, hour, minute) ==
    LET today == (hour * 60 + minute) * SecondsPerMinute
    IN  IF today <= now THEN today + 24 * 60 * SecondsPerMinute ELSE today

\* now.replace(hour=hour, minute=minute, second=0, microsecond=0): the same day
ClockTarget(now, hour, minute) == (hour * 60 + minute) * SecondsPerMinute

\* float("nan") is a float: nan * 60 is nan, and both nan < 0 and nan > 0
\* are False, which are the only uses _run_now and the coroutines make of
\* wait_seconds; so nan seconds stand as 0 seconds
IsNaN(s) == s = <<"n", "a", "n">>
NaNSeconds == 0

\* _get_wait_seconds: -1 for an entry that is refused
GetWaitSeconds(form, now) ==
    IF form.when = "time"
    THEN IF ~(Parses(form.hour) /\ Parses(form.minute)) THEN 0 - 1
         ELSE LET hour == NumberOf(form.hour)
                  minute == NumberOf(form.minute)
              IN  IF ~ValidClock(hour, minute) THEN 0 - 1
                  ELSE IF ClockTarget(now, hour, minute) <= now THEN 0
                  ELSE ClockTarget(now, hour, minute) - now
    ELSE IF IsNaN(form.delay) THEN NaNSeconds
         ELSE IF ~Parses(form.delay) THEN 0 - 1
         ELSE NumberOf(form.delay) * SecondsPerMinute

\* the coroutine submitted for the form's effect with the given wait
FormFrame(form, ws, d) ==
    IF form.effect = "alarm"
    THEN [IdleOp EXCEPT !.kind = "run_alarm", !.effect = "alarm", !.wait = ws]
    ELSE [IdleOp EXCEPT !.kind = "run_effect", !.effect = form.effect, !.wait = ws,
                        !.duration = d]

\* _run_now as clicked with the form as it stands: the entry is refused with
\* "invalid time", or the coroutine is submitted with the wait computed
RunNowClick ==
    /\ caller.pc = "ready" /\ ~ui.timer_running
    /\ LET ws == GetWaitSeconds(ui.form, caller.now) IN
         IF ws < 0
         THEN /\ ui' = [ui EXCEPT !.status = "invalid time"]
              /\ UNCHANGED <<engineVars, timer_cancel, handler, op, fut, caller>>
         ELSE \E d \in GuiFadeDurs : RunNowSubmit(FormFrame(ui.form, ws, d))

\* re.match(r"(\d{1,2}):(\d{2})", text): the number of digits of the hour
\* group, 0 when the text does not match
AtHourLen(s) ==
    IF /\ Len(s) >= 5 /\ IsDigit(s[1]) /\ IsDigit(s[2]) /\ s[3] = ":"
       /\ IsDigit(s[4]) /\ IsDigit(s[5])
    THEN 2
    ELSE IF /\ Len(s) >= 4 /\ IsDigit(s[1]) /\ s[2] = ":"
            /\ IsDigit(s[3]) /\ IsDigit(s[4])
         THEN 1 ELSE 0
AtHour(s) == NatOf(SubSeq(s, 1, AtHourLen(s)))
AtMinute(s) == NatOf(SubSeq(s, AtHourLen(s) + 2, AtHourLen(s) + 3))

\* where a command's coroutine stands once its trigger is worked out: it
\* returned without running, or it waits until the given time
CliRefused(c) == [c EXCEPT !.pc = "cli_returned", !.result = "invalid"]
CliRaised(c) == [c EXCEPT !.pc = "cli_raised", !.result = "error"]
CliWaits(c, until) == [c EXCEPT !.pc = "cli_wait", !.start = c.now, !.until = until]

\* run_timer up to its wait: --at is parsed and checked, else --delay is used
RunTimerBegin ==
    /\ caller.pc = "cli_new" /\ caller.cmd.kind = "timer"
    /\ LET c == caller.cmd IN
         caller' =
           IF c.at # <<>>
           THEN IF AtHourLen(c.at) = 0 THEN CliRefused(caller)
                ELSE IF ~ValidClock(AtHour(c.at), AtMinute(c.at)) THEN CliRefused(caller)
                ELSE LET target == ClockTarget(caller.now, AtHour(c.at), AtMinute(c.at))
                     IN  CliWaits(caller, IF target > caller.now THEN target ELSE caller.now)
           ELSE IF c.delay > 0
                THEN CliWaits(caller, caller.now + c.delay * SecondsPerMinute)
                ELSE CliWaits(caller, caller.now)
    /\ UNCHANGED <<engineVars, timer_cancel, handler, op, fut, ui>>

\* run_saved up to its wait: now.replace raises ValueError for an hour or a
\* minute out of range
RunSavedBegin ==
    /\ caller.pc = "cli_new" /\ caller.cmd.kind = "saved"
    /\ LET c == caller.cmd IN
         caller' =
           IF c.use_time
           THEN IF ~ValidClock(c.hour, c.minute) THEN CliRaised(caller)
                ELSE LET target == ClockTarget(caller.now, c.hour, c.minute)
                     IN  CliWaits(caller, IF target > caller.now THEN target ELSE caller.now)
           ELSE IF c.delay > 0
                THEN CliWaits(caller, caller.now + c.delay * SecondsPerMinute)
                ELSE CliWaits(caller, caller.now)
    /\ UNCHANGED <<engineVars, timer_cancel, handler, op, fut, ui>>

\* the wait loop of a command: await asyncio.sleep(1) while the time is not reached
CliWaitSleep ==
    /\ caller.pc = "cli_wait" /\ caller.now < caller.until
    /\ caller' = [caller EXCEPT !.now = @ + 1]
    /\ UNCHANGED <<engineVars, timer_cancel, handler, op, fut, ui>>

\* the wait is over: get_light(), then the effect is called without cancel_check
CliStartEffect ==
    /\ caller.pc = "cli_wait" /\ caller.now >= caller.until
    /\ caller' = [caller EXCEPT !.pc = "cli_effect"]
    /\ IF caller.cmd.effect = "alarm"
       THEN StartAlarm(Caller, "red", "flash", 0, FALSE)
       ELSE \E d \in GuiFadeDurs : StartFade(Caller, caller.cmd.effect, d, FALSE)
    /\ UNCHANGED <<timer_cancel, handler, op, fut, ui>>

\* the minute 23:59 of the day, around which the wall clock is taken
LastMinute == (23 * 60 + 59) * SecondsPerMinute
Nows == {LastMinute - 1, LastMinute, LastMinute + 1}

HourTexts == {<<"2", "3">>, <<"0">>, <<"2", "4">>, <<"-", "1">>, <<"x">>, <<>>}
MinuteTexts == {<<"5", "9">>, <<"0", "0">>, <<"6", "0">>, <<"x">>}
DelayTexts == {<<"1">>, <<"0">>, <<"-", "1">>, <<"x">>}
Effects == {"fade_in", "fade_out", "alarm"}
GuiForms ==
    {[NoForm EXCEPT !.when = "time", !.hour = h, !.minute = m, !.effect = e] :
        h \in HourTexts, m \in MinuteTexts, e \in Effects}
    \cup {[NoForm EXCEPT !.when = "delay", !.delay = d, !.effect = e] :
            d \in DelayTexts, e \in Effects}

DurationTexts == {<<"1">>, <<"0">>, <<"x">>}
\* the forms run-now is clicked with
ClickForms ==
    {[NoForm EXCEPT !.when = "time", !.hour = <<"2", "3">>, !.minute = <<"5", "9">>],
     [NoForm EXCEPT !.when = "time", !.hour = <<"2", "4">>, !.minute = <<"0", "0">>],
     [NoForm EXCEPT !.when = "delay", !.delay = <<"x">>, !.effect = "fade_in",
                    !.duration = <<"1">>],
     [NoForm EXCEPT !.when = "delay", !.delay = <<"n", "a", "n">>],
     [NoForm EXCEPT !.when = "delay", !.delay = <<"0">>, !.effect = "fade_out",
                    !.duration = <<"1">>]}
    \cup {[NoForm EXCEPT !.when = "delay", !.delay = <<"0">>, !.effect = "fade_in",
                         !.duration = d] : d \in DurationTexts}

AtTexts == {<<"2", "3", ":", "5", "9">>, <<"0", ":", "0", "0">>,
            <<"2", "4", ":", "0", "0">>, <<"2", "3", ":", "6", "0">>,
            <<"2", "3", ":", "5", "9", "0">>, <<"2", "3", "5", "9">>,
            <<"2", "3", ":", "5">>, <<"x">>}
Delays == {0 - 1, 0, 1}
TimerCmds ==
    {[NoCmd EXCEPT !.kind = "timer", !.at = a, !.effect = e] :
        a \in AtTexts, e \in Effects}
    \cup {[NoCmd EXCEPT !.kind = "timer", !.delay = d, !.effect = e] :
            d \in Delays, e \in Effects}
SavedCmds ==
    {[NoCmd EXCEPT !.kind = "saved", !.use_time = TRUE, !.hour = h, !.minute = m,
                   !.effect = e] : h \in {0, 23, 24}, m \in {0, 59, 60}, e \in Effects}
    \cup {[NoCmd EXCEPT !.kind = "saved", !.delay = d, !.effect = e] :
            d \in Delays, e \in Effects}

\* Either the GUI stands with some form filled in, or a command line has been
\* given; the wall clock is near the end of the day.
TriggerInit ==
    /\ EngineInit
    /\ op = [t \in Tasks |-> IdleOp]
    /\ fut = [t \in Tasks |-> "none"]
    /\ \/ /\ handler = [NoHandler EXCEPT !.thread = TRUE, !.loop = "created",
                                         !.started = TRUE]
          /\ \E f \in GuiForms : ui = [NoUi EXCEPT !.form = f]
          /\ \E n \in Nows : caller = [NoCaller EXCEPT !.pc = "ready", !.now = n]
       \/ /\ handler = NoHandler
          /\ ui = NoUi
          /\ \E c \in TimerCmds \cup SavedCmds, n \in Nows :
                caller = [NoCaller EXCEPT !.pc = "cli_new", !.cmd = c, !.now = n]

\* from the trigger to the start of the effect
TriggerNext ==
    \/ ThreadRunForever
    \/ LoopRunHandle
    \/ RunNowClick
    \/ \E t \in Tasks : OpWaitCheck(t)
    \/ \E t \in Tasks : OpWaitSleep(t)
    \/ \E t \in Tasks : OpPostWait(t)
    \/ RunTimerBegin
    \/ RunSavedBegin
    \/ CliWaitSleep
    \/ CliStartEffect

TriggerSpec == TriggerInit /\ [][TriggerNext]_vars

\* ------------------------------------------------- _run_now as a whole
\* duration = float(self.duration_var.get()); if duration <= 0: raise ValueError()
ValidDuration(s) == Parses(s) /\ NumberOf(s) > 0
DurationUnits(s) == NumberOf(s) * UnitsPerMinute

\* the status _run_now returns with when it submits nothing, "none" when it
\* goes on to submit
Refusal(u, form, now) ==
    IF u.timer_running THEN "already running"
    ELSE IF GetWaitSeconds(form, now) < 0 THEN "invalid time"
    ELSE IF form.effect # "alarm" /\ ~ValidDuration(form.duration) THEN "invalid duration"
    ELSE "none"

\* self._timer_cancel = False stands after every return that refuses
TokenAfterClick(refusal, flag) == IF refusal = "none" THEN ResetCancel(flag) ELSE flag

\* _ensure_connected: a light that is there is kept, else _connect gets one or fails
EnsureConnected(l, connects) == IF l = "none" /\ ~connects THEN "none" ELSE "ok"

\* the run-now button is clicked with the form filled in as f
RunNowPressed ==
    /\ caller.pc = "ready" /\ ui.click.n < MaxClicks
    /\ \E f \in ClickForms, connects \in BOOLEAN :
         LET l == EnsureConnected(ui.light, connects)
             r == Refusal(ui, f, caller.now)
             clicked == [ui EXCEPT !.light = l,
                                   !.click = [n |-> @.n + 1, running |-> ui.timer_running,
                                              form |-> f]]
         IN  IF l = "none"
             THEN /\ ui' = [clicked EXCEPT !.status = "not connected"]
                  /\ UNCHANGED <<engineVars, timer_cancel, handler, op, fut, caller>>
             ELSE IF r # "none"
             THEN /\ ui' = [clicked EXCEPT !.status = r]
                  /\ timer_cancel' = TokenAfterClick(r, timer_cancel)
                  /\ UNCHANGED <<engineVars, handler, op, fut, caller>>
             ELSE /\ HasFree /\ ui.nsub < MaxSubmits
                  /\ timer_cancel' = TokenAfterClick(r, timer_cancel)
                  /\ ui' = [clicked EXCEPT !.timer_running = TRUE, !.nsub = @ + 1,
                                           !.status = "running"]
                  /\ Submit(FreeSlot, FormFrame(f, GetWaitSeconds(f, caller.now),
                                                DurationUnits(f.duration)))
                  /\ UNCHANGED <<engineVars, caller>>

\* A session of run-now and stop clicks with the form filled in anew before
\* each click; the wall clock stands one second before 23:59.
RunNowInit ==
    /\ EngineInit
    /\ handler = [NoHandler EXCEPT !.thread = TRUE, !.loop = "created", !.started = TRUE]
    /\ op = [t \in Tasks |-> IdleOp]
    /\ fut = [t \in Tasks |-> "none"]
    /\ ui = NoUi
    /\ caller = [NoCaller EXCEPT !.pc = "ready", !.now = LastMinute - 1]

RunNowNext ==
    \/ ThreadRunForever
    \/ LoopRunHandle
    \/ RunNowPressed
    \/ CancelTimer
    \/ UiCallback
    \/ \E t \in Tasks : OpWaitCheck(t)
    \/ \E t \in Tasks : OpWaitSleep(t)
    \/ \E t \in Tasks : OpPostWait(t)
    \/ \E t \in Tasks : FadeStep(t)
    \/ \E t \in Tasks : AlarmStep(t)
    \/ \E t \in Tasks : OpAfterEffect(t)
    \/ \E t \in Tasks : OpFinally(t)

RunNowSpec == RunNowInit /\ [][RunNowNext]_vars

\* ---------------------------------------------------------- run_routine
\* one step of a routine as load_schedule gives it; duration and
\* alarm_duration are minutes, written in time units
NoStep == [effect |-> "fade_in", use_time |-> TRUE, hour |-> 7, minute |-> 30,
           delay_mins |-> 0, duration |-> 0, alarm_style |-> "flash",
           alarm_duration |-> 0]

\* time units in a second of the wall clock
UnitsPerSecond == UnitsPerMinute \div SecondsPerMinute

StandaloneAlarmDuration(step) == step.alarm_duration

\* alarm(light, xy, style, duration_minutes=alarm_dur) if alarm_dur > 0, else
\* duration_minutes=1
RoutineAlarmDuration(step) ==
    IF step.alarm_duration > 0 THEN step.alarm_duration ELSE UnitsPerMinute

\* the time the effect of a step takes when it runs to its end
EffectUnits(step) ==
    IF step.effect = "alarm" THEN RoutineAlarmDuration(step) ELSE step.duration

SkipStep(i) == i + 2

\* for i, step in enumerate(steps): the position after step i
NextStep(i) == i + 1

\* run_routine is entered: get_light(), then the loop over the steps
RoutineBegin ==
    /\ caller.pc = "cli_new" /\ caller.cmd.kind = "routine"
    /\ caller' = [caller EXCEPT !.pc = "rt_next", !.i = 1]
    /\ UNCHANGED <<engineVars, timer_cancel, handler, op, fut, ui>>

\* the loop takes the next step and works out its wait, or it is exhausted and
\* the routine is complete; now.replace raises ValueError for an hour or a
\* minute out of range
RoutineStepBegin ==
    /\ caller.pc = "rt_next"
    /\ caller' =
         IF caller.i > Len(caller.steps) THEN [caller EXCEPT !.pc = "rt_done"]
         ELSE LET step == caller.steps[caller.i]
                  target == ClockTarget(caller.now, step.hour, step.minute)
                  until == IF step.use_time
                           THEN IF target > caller.now THEN target ELSE caller.now
                           ELSE IF step.delay_mins > 0
                                THEN caller.now + step.delay_mins * SecondsPerMinute
                                ELSE caller.now
              IN  IF step.use_time /\ ~ValidClock(step.hour, step.minute)
                  THEN CliRaised(caller)
                  ELSE [caller EXCEPT !.pc = "rt_wait", !.start = caller.now,
                                      !.until = until,
                                      !.log = Append(@, <<"wait", caller.i>>)]
    /\ UNCHANGED <<engineVars, timer_cancel, handler, op, fut, ui>>

\* while datetime.now() < target: await asyncio.sleep(1)
RoutineWaitSleep ==
    /\ caller.pc = "rt_wait" /\ caller.now < caller.until
    /\ caller' = [caller EXCEPT !.now = @ + 1]
    /\ UNCHANGED <<engineVars, timer_cancel, handler, op, fut, ui>>

\* the wait of the step is over: its effect is called, without cancel_check
RoutineStartEffect ==
    /\ caller.pc = "rt_wait" /\ caller.now >= caller.until
    /\ caller' = [caller EXCEPT !.pc = "rt_effect",
                                !.log = Append(@, <<"effect", caller.i>>)]
    /\ LET step == caller.steps[caller.i] IN
         IF step.effect = "alarm"
         THEN StartAlarm(Caller, "red", step.alarm_style, RoutineAlarmDuration(step), FALSE)
         ELSE StartFade(Caller, step.effect, step.duration, FALSE)
    /\ UNCHANGED <<timer_cancel, handler, op, fut, ui>>

\* the effect of the step returned: the loop goes on to the next step
RoutineEffectDone ==
    /\ caller.pc = "rt_effect" /\ co[Caller].pc = "returned"
    /\ caller' = [caller EXCEPT
                    !.pc = "rt_next", !.i = NextStep(caller.i),
                    !.now = @ + EffectUnits(caller.steps[caller.i]) \div UnitsPerSecond,
                    !.log = Append(@, <<"done", caller.i>>)]
    /\ EffectFrameDropped(Caller)
    /\ UNCHANGED <<light, clock, timer_cancel, handler, op, fut, ui>>

\* the effect of the step raised: run_routine has no handler, the routine ends
RoutineEffectRaised ==
    /\ caller.pc = "rt_effect" /\ co[Caller].pc = "raised"
    /\ caller' = CliRaised(caller)
    /\ EffectFrameDropped(Caller)
    /\ UNCHANGED <<light, clock, timer_cancel, handler, op, fut, ui>>

\* the routines run: one or two steps out of these
RoutineNow == LastMinute - 2 * SecondsPerMinute - 10
RoutineSteps ==
    {[NoStep EXCEPT !.effect = "fade_in", !.use_time = FALSE, !.duration = 100],
     [NoStep EXCEPT !.effect = "fade_out", !.hour = 23, !.minute = 57, !.duration = 400],
     [NoStep EXCEPT !.effect = "alarm", !.use_time = FALSE],
     [NoStep EXCEPT !.effect = "alarm", !.hour = 0, !.minute = 0,
                    !.alarm_style = "breathing", !.alarm_duration = 40],
     [NoStep EXCEPT !.effect = "alarm", !.use_time = FALSE, !.delay_mins = 1,
                    !.alarm_style = "fast", !.alarm_duration = 12],
     [NoStep EXCEPT !.effect = "fade_in", !.hour = 24, !.minute = 0, !.duration = 100]}
Routines ==
    {<<a>> : a \in RoutineSteps} \cup {<<a, b>> : a \in RoutineSteps, b \in RoutineSteps}

RoutineInit ==
    /\ EngineInit
    /\ handler = NoHandler
    /\ op = [t \in Tasks |-> IdleOp]
    /\ fut = [t \in Tasks |-> "none"]
    /\ ui = NoUi
    /\ \E r \in Routines :
          caller = [NoCaller EXCEPT !.pc = "cli_new", !.cmd = [NoCmd EXCEPT !.kind = "routine"],
                                    !.now = RoutineNow, !.steps = r]

RoutineNext ==
    \/ RoutineBegin
    \/ RoutineStepBegin
    \/ RoutineWaitSleep
    \/ RoutineStartEffect
    \/ FadeStep(Caller)
    \/ AlarmStep(Caller)
    \/ DeviceRaise(Caller)
    \/ RoutineEffectDone
    \/ RoutineEffectRaised

RoutineSpec == RoutineInit /\ [][RoutineNext]_vars

\* time advances and run_routine is resumed whenever it can go on: its sleeps
\* end, its device calls return or raise, and the loop takes its next step
FairRoutineSpec ==
    /\ RoutineSpec
    /\ WF_vars(RoutineBegin)
    /\ WF_vars(RoutineStepBegin)
    /\ WF_vars(RoutineWaitSleep)
    /\ WF_vars(RoutineStartEffect)
    /\ WF_vars(FadeStep(Caller))
    /\ WF_vars(AlarmStep(Caller))
    /\ WF_vars(RoutineEffectDone)
    /\ WF_vars(RoutineEffectRaised)

\* ------------------------------------------- a routine that is interrupted
InterruptedStep(c) == [c EXCEPT !.pc = "rt_next", !.i = NextStep(c.i)]

\* asyncio.run(run_routine(...)) under except KeyboardInterrupt: the coroutine
\* is cancelled where it is suspended and the command prints "Routine stopped"
Interrupted(c) == [c EXCEPT !.pc = "cli_stopped", !.result = "cancelled"]

\* Ctrl+C while run_routine is suspended in the sleep of a wait or in its effect
RoutineInterrupt ==
    /\ \/ caller.pc = "rt_wait" /\ caller.now < caller.until
       \/ caller.pc = "rt_effect" /\ co[Caller].pc \in DevicePcs \cup SleepPcs
    /\ caller' = [Interrupted(caller) EXCEPT
                    !.log = Append(@, <<(IF caller.pc = "rt_wait" THEN "cancelled"
                                         ELSE "interrupted"), caller.i>>)]
    /\ EffectFrameDropped(Caller)
    /\ UNCHANGED <<light, clock, timer_cancel, handler, op, fut, ui>>

RoutineStopNext ==
    \/ RoutineNext
    \/ RoutineInterrupt

RoutineStopSpec == RoutineInit /\ [][RoutineStopNext]_vars

\* ------------------------------------------------------ colour conversion
\* Python floats are modelled in fixed point: the integer v stands for
\* v / Scale. A float that is not finite is kept as such (inf, -inf, nan).
Scale == 10000

Abs(a) == IF a < 0 THEN 0 - a ELSE a
Sgn(a) == IF a < 0 THEN 0 - 1 ELSE 1

\* a * b and a / b in fixed point, truncated; the product is formed in two
\* parts to stay within the integers of the checker
MulS(a, b) ==
    LET x == Abs(a)
        y == Abs(b)
        m == (x * (y \div 100)) \div 100 + (x * (y % 100)) \div Scale
    IN  Sgn(a) * Sgn(b) * m
DivS(a, b) == Sgn(a) * Sgn(b) * ((Abs(a) * Scale) \div Abs(b))

RECURSIVE PowS(_, _)
PowS(w, n) == IF n = 0 THEN Scale ELSE MulS(PowS(w, n - 1), w)

\* the largest w in lo..hi with w ** n <= t
RECURSIVE RootIn(_, _, _, _)
RootIn(lo, hi, t, n) ==
    IF lo >= hi THEN lo
    ELSE LET mid == (lo + hi + 1) \div 2
         IN  IF PowS(mid, n) <= t THEN RootIn(mid, hi, t, n)
             ELSE RootIn(lo, mid - 1, t, n)
\* t ** (1 / n) for t >= 0
Root(t, n) == RootIn(0, IF t <= Scale THEN Scale ELSE Min(t, 6 * Scale), t, n)

\* c / 255.0, then ((c + 0.055) / 1.055) ** 2.4 if c > 0.04045 else c / 12.92
Linear(c) ==
    LET f == (c * Scale) \div 255
    IN  IF c * 100000 > 4045 * 255
        THEN PowS(Root(DivS(f + 550, 10550), 5), 12)
        ELSE (f * 100) \div 1292

\* X, Y, Z of the linear channels, and their sum
XOf(r, g, b) == MulS(r, 4125) + MulS(g, 3576) + MulS(b, 1804)
YOf(r, g, b) == MulS(r, 2127) + MulS(g, 7152) + MulS(b, 722)
ZOf(r, g, b) == MulS(r, 193) + MulS(g, 1192) + MulS(b, 9503)
Total(r, g, b) ==
    LET lr == Linear(r)
        lg == Linear(g)
        lb == Linear(b)
    IN  XOf(lr, lg, lb) + YOf(lr, lg, lb) + ZOf(lr, lg, lb)

\* (0.31271, 0.32902), in units of 1 / 100000
WhitePoint == <<31271, 32902>>

\* (X / total, Y / total); a division by 0 raises ZeroDivisionError
Normalised(X, Y, total) ==
    IF total = 0 THEN [x |-> 0, y |-> 0, guard |-> FALSE, raised |-> "ZeroDivisionError"]
    ELSE [x |-> DivS(X, total), y |-> DivS(Y, total), guard |-> FALSE, raised |-> "none"]

rgb_to_xy_unguarded(r, g, b) ==
    LET lr == Linear(r)
        lg == Linear(g)
        lb == Linear(b)
    IN  Normalised(XOf(lr, lg, lb), YOf(lr, lg, lb), Total(r, g, b))

\* rgb_to_xy; guard tells that the branch "if total == 0" was taken
rgb_to_xy(r, g, b) ==
    LET lr == Linear(r)
        lg == Linear(g)
        lb == Linear(b)
        total == Total(r, g, b)
    IN  IF total = 0
        THEN [x |-> WhitePoint[1], y |-> WhitePoint[2], guard |-> TRUE, raised |-> "none"]
        ELSE Normalised(XOf(lr, lg, lb), YOf(lr, lg, lb), total)

\* floats: finite, or one of the values that are not
Fin(v) == [k |-> "fin", v |-> v]
Inf == [k |-> "inf", v |-> 0]
NInf == [k |-> "ninf", v |-> 0]
NaN == [k |-> "nan", v |-> 0]
\* the smallest positive float, 5e-324: above 0, absorbed in sums, and every
\* brightness above 0 divided by it overflows to inf
Tiny == [k |-> "tiny", v |-> 0]

FNeg(a) ==
    CASE a.k = "fin" -> Fin(0 - a.v)
      [] a.k = "inf" -> NInf
      [] a.k = "ninf" -> Inf
      [] OTHER -> a

FAdd(a, b) ==
    CASE a.k = "nan" \/ b.k = "nan" -> NaN
      [] a.k = "tiny" -> b
      [] b.k = "tiny" -> a
      [] a.k = "fin" /\ b.k = "fin" -> Fin(a.v + b.v)
      [] a.k = "fin" -> b
      [] b.k = "fin" -> a
      [] a.k = b.k -> a
      [] OTHER -> NaN
FSub(a, b) == FAdd(a, FNeg(b))

\* the sign of a float that is not nan: -1, 0 or 1
FSign(a) ==
    CASE a.k = "fin" -> (IF a.v = 0 THEN 0 ELSE Sgn(a.v))
      [] a.k = "ninf" -> 0 - 1
      [] OTHER -> 1

FMul(a, b) ==
    CASE a.k = "nan" \/ b.k = "nan" -> NaN
      [] a.k = "fin" /\ b.k = "fin" -> Fin(MulS(a.v, b.v))
      [] FSign(a) * FSign(b) = 0 -> NaN
      [] FSign(a) * FSign(b) > 0 -> Inf
      [] OTHER -> NInf

\* Y / y for y > 0
FDiv(a, b) ==
    IF b.k = "tiny" THEN (IF a.v = 0 THEN Fin(0) ELSE IF a.v > 0 THEN Inf ELSE NInf)
    ELSE Fin(DivS(a.v, b.v))

\* y > 0
FPositive(a) == a.k = "tiny" \/ (a.k = "fin" /\ a.v > 0)

\* 12.92 * c if c <= 0.0031308 else 1.055 * (c ** (1 / 2.4)) - 0.055; the
\* exponent 1 / 2.4 is 5 / 12
Encode(c) ==
    CASE c.k = "nan" -> NaN
      [] c.k = "inf" -> Inf
      [] c.k = "ninf" -> NInf
      [] OTHER ->
           IF c.v * 1000 <= 31308
           THEN Fin(MulS(c.v, 129200))
           ELSE Fin(MulS(10550, PowS(Root(Root(Root(c.v, 3), 2), 2), 5)) - 550)

\* int(c * 255) raises ValueError for nan and OverflowError for an infinity
IntRaises(c) ==
    CASE c.k = "nan" -> "ValueError"
      [] c.k \in {"inf", "ninf"} -> "OverflowError"
      [] OTHER -> "none"

\* max(0, min(255, int(c * 255)))
Channel(c) ==
    IF c.k # "fin" THEN 0
    ELSE Max(0, Min(255, Sgn(c.v) * ((Abs(c.v) * 255) \div Scale)))

\* xy_to_rgb: the three channels, or the exception the first of them raised
xy_to_rgb(x, y, brightness) ==
    LET z == FSub(FSub(Fin(Scale), x), y)
        Y == brightness
        X == IF FPositive(y) THEN FMul(FDiv(Y, y), x) ELSE Fin(0)
        Z == IF FPositive(y) THEN FMul(FDiv(Y, y), z) ELSE Fin(0)
        r == FSub(FSub(FMul(X, Fin(32405)), FMul(Y, Fin(15371))), FMul(Z, Fin(4985)))
        g == FAdd(FAdd(FMul(FNeg(X), Fin(9693)), FMul(Y, Fin(18760))), FMul(Z, Fin(416)))
        b == FAdd(FSub(FMul(X, Fin(556)), FMul(Y, Fin(2040))), FMul(Z, Fin(10572)))
        enc == <<Encode(r), Encode(g), Encode(b)>>
        bad == {i \in 1..3 : IntRaises(enc[i]) # "none"}
    IN  [rgb |-> [i \in 1..3 |-> Channel(enc[i])], guard |-> ~FPositive(y),
         raised |-> IF bad = {} THEN "none"
                    ELSE IntRaises(enc[CHOOSE i \in bad : \A j \in bad : i <= j])]

\* rgb_to_xy is called with the arguments given
CallRgbToXY ==
    /\ caller.pc = "colour_new" /\ caller.cmd.kind = "rgb_to_xy"
    /\ caller' = [caller EXCEPT
                    !.pc = "colour_done",
                    !.value = rgb_to_xy(caller.args[1], caller.args[2], caller.args[3])]
    /\ UNCHANGED <<engineVars, timer_cancel, handler, op, fut, ui>>

\* xy_to_rgb is called with the arguments given
CallXyToRgb ==
    /\ caller.pc = "colour_new" /\ caller.cmd.kind = "xy_to_rgb"
    /\ caller' = [caller EXCEPT
                    !.pc = "colour_done",
                    !.value = xy_to_rgb(caller.args[1], caller.args[2], caller.args[3])]
    /\ UNCHANGED <<engineVars, timer_cancel, handler, op, fut, ui>>

\* the arguments tried
ChannelValues == {0, 1, 10, 11, 64, 128, 254, 255}
XValues == {Fin(0), Fin(1500), Fin(3127), Fin(7000)}
YValues == {Fin(0 - 1000), Fin(0), Tiny, Fin(600), Fin(3000), Fin(3290)}
BrightnessValues == {Fin(0), Fin(5000), Fin(Scale)}

ColourInit ==
    /\ EngineInit
    /\ handler = NoHandler
    /\ op = [t \in Tasks |-> IdleOp]
    /\ fut = [t \in Tasks |-> "none"]
    /\ ui = NoUi
    /\ \/ \E r \in ChannelValues, g \in ChannelValues, b \in ChannelValues :
             caller = [NoCaller EXCEPT !.pc = "colour_new", !.args = <<r, g, b>>,
                                       !.cmd = [NoCmd EXCEPT !.kind = "rgb_to_xy"]]
       \/ \E x \in XValues, y \in YValues, br \in BrightnessValues :
             caller = [NoCaller EXCEPT !.pc = "colour_new", !.args = <<x, y, br>>,
                                       !.cmd = [NoCmd EXCEPT !.kind = "xy_to_rgb"]]

ColourNext ==
    \/ CallRgbToXY
    \/ CallXyToRgb

ColourSpec == ColourInit /\ [][ColourNext]_vars

\* ============================================================ properties
RestoreCalls == <<(<<"power", TRUE>>), (<<"bri", FullBrightness>>)>>

\* C1: fade_out issues power-off if and only if it runs to natural completion:
\* a run that returned true has set_power(false) as its last device call, a run
\* that returned false (cancelled) never issued a power-off, and a power-off is
\* never issued by a run that does not return true.
C1_FadeOutPowerOffIffCompleted ==
    \A t \in Tasks : co[t].kind = "fade_out" =>
        /\ co[t].result = "true" => obs[t].last2[2] = <<"power", FALSE>>
        /\ co[t].result = "false" => ~obs[t].offIssued
        /\ obs[t].offIssued => co[t].result = "true"

\* a fade_out cancelled after its first step, and one that ran to its power-off
C1_Witness ==
    /\ co[Caller].kind = "fade_out" /\ co[Caller].result = "false"
    /\ obs[Caller].nBri >= 1 /\ ~obs[Caller].offIssued

\* C2: an alarm that has returned, by expiry or by cancellation, made
\* set_power(true) then set_brightness(254) its last two device calls, and the
\* light is on at brightness 254.
C2_AlarmExitRestores ==
    \A t \in Tasks : (IsAlarm(co[t]) /\ co[t].pc = "returned") =>
        /\ obs[t].last2 = RestoreCalls
        /\ light.power /\ light.bri = FullBrightness

\* a breathing alarm cancelled in the middle of its down ramp
C2_Witness ==
    /\ IsAlarm(co[Caller]) /\ co[Caller].pc = "returned"
    /\ co[Caller].style = "breathing" /\ obs[Caller].sawCancel
    /\ co[Caller].b = BreathHigh - BreathStep

\* C3: a fade evaluates the cancellation check before every step and never
\* inside one: the brightness writes never outnumber the checks, a step's two
\* writes are both issued by the time the fade returns, false is returned
\* exactly when a check saw the token, true only after all steps + 1 steps, and
\* fade_in never issues a power-off.
C3_FadeChecksBetweenSteps ==
    \A t \in Tasks : IsFade(co[t]) =>
        /\ obs[t].nBri <= obs[t].nChecks /\ obs[t].nChecks <= obs[t].nBri + 1
        /\ obs[t].nTemp <= obs[t].nBri /\ obs[t].nBri <= obs[t].nTemp + 1
        /\ co[t].pc = "returned" => obs[t].nBri = obs[t].nTemp
        /\ obs[t].nBri > obs[t].nTemp => co[t].pc \in {"step_temp", "raised"}
        /\ co[t].result = "false" <=> obs[t].sawCancel
        /\ co[t].result = "true" => obs[t].nBri = co[t].steps + 1
        /\ co[t].kind = "fade_in" => ~obs[t].offIssued

\* a fade_in of several steps cancelled after exactly one applied step
C3_Witness ==
    /\ co[Caller].kind = "fade_in" /\ co[Caller].result = "false"
    /\ co[Caller].steps >= 2 /\ obs[Caller].nBri = 1 /\ obs[Caller].nTemp = 1

\* an effect has been stopped short: a fade returned false, or an alarm left
\* its loop for the restore
Stopped(c) ==
    \/ IsFade(c) /\ c.result = "false"
    \/ IsAlarm(c) /\ c.pc \in {"restore_power", "restore_bri", "returned"}

\* C4: cancellation is cooperative: setting the token changes no coroutine and
\* no device state; an effect is stopped short only by a step taken from a
\* cancellation check, never out of a sleep or a device call in flight; and
\* after a check has seen the token no per-step write is issued any more.
C4_CancellationCooperative ==
    /\ [][(timer_cancel' /\ ~timer_cancel) => (co' = co /\ light' = light)]_vars
    /\ [][\A t \in Tasks : (~Stopped(co[t]) /\ Stopped(co'[t]))
                              => co[t].pc \in CheckPcs]_vars
    /\ [](\A t \in Tasks : obs[t].afterSeen = 0)

\* the token was set while a step's brightness write was in flight; the write
\* and the temperature write after it were still made before the fade stopped
C4_Witness ==
    /\ IsFade(co[Caller]) /\ co[Caller].result = "false"
    /\ obs[Caller].setAt = "step_bri" /\ obs[Caller].nTemp >= 1

FlashUntilCancelled(c) ==
    IsAlarm(c) /\ c.style = "flash" /\ c.duration = 0 /\ c.cc

\* C5: in a flash alarm without duration, after the token is set at most one
\* more power toggle reaches the light and at most one more sleep runs out,
\* a returned alarm leaves power on and brightness 254, and once the token is
\* set the alarm does terminate.
C5_FlashStopsWithinOneCycle ==
    /\ [](\A t \in Tasks : FlashUntilCancelled(co[t]) =>
            /\ obs[t].afterCancel <= 1 /\ obs[t].sleepsAfterCancel <= 1
            /\ co[t].pc = "returned" => (light.power /\ light.bri = FullBrightness))
    /\ \A t \in Tasks :
          (FlashUntilCancelled(co[t]) /\ timer_cancel) ~> (co[t].pc \in EndPcs)

\* a flash alarm that returned after one toggle made with the token already set
C5_Witness ==
    /\ FlashUntilCancelled(co[Caller]) /\ co[Caller].pc = "returned"
    /\ obs[Caller].afterCancel = 1 /\ obs[Caller].setAt = "toggle_power"

\* a submitted run_alarm / run_effect that has not reached its completion code
Active(t) ==
    IsGuiOp(t) /\ op[t].pc \in {"submitted", "wait_check", "wait_sleep", "post_wait", "effect"}

\* C6: at most one effect operation submitted by _run_now is in flight against
\* the light at any time.
C6_SingleFlight == Cardinality({t \in Tasks : Active(t)}) <= 1

\* C7: while an execution is running, a cancel flag that is set is not reset
\* to false: the request cannot be lost before the execution has ended.
C7_CancelNeverReset ==
    [][\A t \in Tasks : (Active(t) /\ timer_cancel) => timer_cancel']_vars

\* C8: every operation submitted by _run_now starts with the cancel flag unset
\* and a cancel issued before its submission never reaches it: whenever the flag
\* an operation in flight would read is set, stop was clicked after that
\* operation was submitted.
C8_FreshTokenPerSubmission ==
    \A t \in Tasks : (IsGuiOp(t) /\ InFlight(t) /\ timer_cancel) => op[t].cancelSince

\* an earlier execution was cancelled during its wait, and a later one runs its
\* effect with the flag unset
C8_Witness ==
    \E t, u \in Tasks :
        /\ op[u].pc = "finished" /\ op[u].ndone = 2
        /\ op[t].pc = "effect" /\ co[t].pc = "step_bri"
        /\ ~timer_cancel /\ ~op[t].cancelSince

\* C9: every submitted operation queues its completion notification
\* (_on_timer_done) exactly once, on every path.
C9_DoneExactlyOnce ==
    \A t \in Tasks : op[t].pc = "finished" => op[t].ndone = 1

\* C10: a coroutine submitted with run_async or run after stop() was called
\* is refused with a bridge-closed error.
C10_SubmitAfterStopFails ==
    \A t \in Tasks : op[t].afterStop => fut[t] = "bridge_closed"

\* C11: stop() lets the work in flight drain: once the loop has stopped, no
\* operation that was submitted is left short of its end.
C11_StopDrainsInFlight ==
    handler.loop = "stopped" => \A t \in Tasks : ~InFlight(t)

\* C12: cancelling again is accepted and changes nothing: with the token
\* already set, one more cancel leaves the token set and every coroutine, the
\* light and the clock as they were, so the operation ends as after one cancel.
C12_CancelIdempotent ==
    /\ [](timer_cancel => ENABLED CancelAgain)
    /\ [][CancelAgain => (timer_cancel' = timer_cancel /\ co' = co
                            /\ light' = light /\ clock' = clock)]_vars
    /\ [][timer_cancel => timer_cancel']_vars

\* a fade cancelled twice while its step was in flight, stopped at the next check
C12_Witness ==
    /\ IsFade(co[Caller]) /\ co[Caller].result = "false"
    /\ obs[Caller].setAt = "step_bri" /\ obs[Caller].againAt = "step_temp"

\* C13: once start() has returned the loop exists, so a submission finds it;
\* every coroutine submitted from then on (and before any stop) gets a future
\* and is eventually started by the handler's one loop.
C13_StartBlocksUntilReady ==
    /\ [](caller.pc \in {"ready", "in_run"} => (handler.loop # "none" /\ handler.started))
    /\ [](\A t \in Tasks : InFlight(t) => fut[t] = "pending")
    /\ \A t \in Tasks :
          (op[t].pc = "submitted" /\ ~op[t].afterStop) ~> (op[t].pc # "submitted")

\* a coroutine submitted after start() returned has run to its end on the loop
C13_Witness ==
    \E t \in Tasks : /\ op[t].pc = "finished" /\ fut[t] = "done"
                     /\ handler.loop = "running" /\ handler.nstops = 0

\* C14: run blocks its caller until the future is done or the timeout runs
\* out: it returns with the result of a future that is done, with the error of
\* one that failed, and with a timeout for one still pending, and while it
\* blocks one of these returns is always possible.
C14_RunBlocksUntilDoneOrTimeout ==
    /\ [][(caller.pc = "in_run" /\ caller'.pc # "in_run") =>
            /\ caller'.pc = "ready"
            /\ \/ fut[caller.task] = "done" /\ caller'.result = "ok"
               \/ fut[caller.task] = "failed" /\ caller'.result = "error"
               \/ fut[caller.task] = "pending" /\ caller'.result = "timeout"]_vars
    /\ [][caller.pc = "in_run" => (caller'.pc = "in_run" => caller' = caller)]_vars
    /\ [](caller.pc = "in_run" => ENABLED (RunReturn \/ RunTimeout))

\* run has returned with the error its coroutine raised
C14_Witness ==
    /\ caller.pc = "ready" /\ caller.result = "error"
    /\ caller.task \in Tasks /\ fut[caller.task] = "failed"

\* C15: a device call that raises ends the effect at that call: the effect is
\* over with the error as its outcome, and from then on it issues no device
\* call, so neither fade_out's power-off nor the alarm's restore follows.
C15_DeviceErrorAborts ==
    /\ [](\A t \in Tasks : obs[t].raisedAt # "none" =>
            /\ co[t].pc = "raised" /\ co[t].result = "error"
            /\ IsFade(co[t]) => ~obs[t].offIssued)
    /\ [][\A t \in Tasks : obs[t].raisedAt # "none" =>
            (obs'[t].last2 = obs[t].last2 /\ co'[t] = co[t] /\ light' = light)]_vars

\* a flash alarm whose second toggle raised: the light stays off, unrestored
C15_Witness ==
    /\ IsAlarm(co[Caller]) /\ co[Caller].pc = "raised"
    /\ obs[Caller].raisedAt = "toggle_power" /\ ~light.power

\* the instant h:m:00 of the current day, in seconds since midnight
TodayAt(hour, minute) == hour * 3600 + minute * 60

\* a clock entry is valid when both texts are numbers, 0..23 and 0..59
ValidClockTexts(h, m) ==
    /\ AllDigits(h) /\ AllDigits(m)
    /\ NatOf(h) \in 0..23 /\ NatOf(m) \in 0..59

\* text of the form H:MM or HH:MM that names a time of day
ValidAtText(s) ==
    \E k \in {1, 2} :
        /\ Len(s) = k + 3 /\ s[k + 1] = ":"
        /\ ValidClockTexts(SubSeq(s, 1, k), SubSeq(s, k + 2, k + 3))

\* C16: an invalid trigger (hour outside 0..23, minute outside 0..59, or text
\* that is no time) never leads to a wait or to the effect: in the GUI nothing
\* is submitted and the running flag stays clear, and a command ends, refused
\* or with the error, before its wait and without calling the effect.
C16_InvalidTriggerRejected ==
    /\ (ui.form.when = "time" /\ ~ValidClockTexts(ui.form.hour, ui.form.minute)) =>
          /\ \A t \in Tasks : op[t].pc = "none" /\ co[t].pc = "idle"
          /\ ~ui.timer_running
    /\ (caller.cmd.kind = "timer" /\ caller.cmd.at # <<>> /\ ~ValidAtText(caller.cmd.at)) =>
          /\ caller.pc \in {"cli_new", "cli_returned"}
          /\ co[Caller].pc = "idle"
    /\ (caller.cmd.kind = "saved" /\ caller.cmd.use_time
          /\ ~(caller.cmd.hour \in 0..23 /\ caller.cmd.minute \in 0..59)) =>
          /\ caller.pc \in {"cli_new", "cli_raised"}
          /\ co[Caller].pc = "idle"

\* how long a clock trigger waits: until the instant if it lies ahead, not at all
\* if it is now or past
ClockWait(hour, minute, now) ==
    IF TodayAt(hour, minute) > now THEN TodayAt(hour, minute) - now ELSE 0

\* C17: a clock trigger aims at h:m:00 of the current day: if that lies ahead
\* the wait lasts until then, if it is now or past there is no wait at all (no
\* roll-over to the next day), and the effect starts only when the wait is over.
C17_ClockTriggerSameDay ==
    /\ (ui.form.when = "time" /\ ValidClockTexts(ui.form.hour, ui.form.minute)) =>
          /\ ui.status # "invalid time"
          /\ \A t \in Tasks :
                /\ op[t].pc = "submitted" =>
                      op[t].wait = ClockWait(NatOf(ui.form.hour), NatOf(ui.form.minute),
                                             caller.now)
                /\ op[t].pc \in {"post_wait", "effect"} => op[t].wait = 0
    /\ (caller.cmd.kind = "saved" /\ caller.cmd.use_time
          /\ caller.pc \in {"cli_wait", "cli_effect"}) =>
          /\ caller.until = caller.start
                 + ClockWait(caller.cmd.hour, caller.cmd.minute, caller.start)
          /\ caller.pc = "cli_effect" => caller.now = caller.until
    /\ (caller.cmd.kind = "timer" /\ ValidAtText(caller.cmd.at)
          /\ caller.pc \in {"cli_wait", "cli_effect"}) =>
          /\ caller.until = caller.start
                 + ClockWait(AtHour(caller.cmd.at), AtMinute(caller.cmd.at), caller.start)
          /\ caller.pc = "cli_effect" => caller.now = caller.until

\* run-now clicked at 23:59:00 sharp with 23:59 entered: the effect has started
C17_Witness ==
    /\ ui.form.when = "time"
    /\ ui.form.hour = <<"2", "3">> /\ ui.form.minute = <<"5", "9">>
    /\ caller.now = LastMinute
    /\ \E t \in Tasks : op[t].pc = "effect" /\ co[t].pc = "init_power"

\* how long a delay trigger waits
DelayWait(minutes) == IF minutes <= 0 THEN 0 ELSE minutes * 60

\* C18: a delay of zero or fewer minutes starts the effect at once, a positive
\* one after minutes * 60 seconds: in the GUI every delay that is a number is
\* accepted and submitted with that wait, and a command calls its effect
\* exactly that long after it began.
C18_DelayTrigger ==
    /\ (ui.form.when = "delay" /\ Parses(ui.form.delay)) =>
          /\ ui.status # "invalid time"
          /\ \A t \in Tasks : op[t].pc = "submitted" =>
                op[t].wait = DelayWait(NumberOf(ui.form.delay))
    /\ (\/ caller.cmd.kind = "timer" /\ caller.cmd.at = <<>>
        \/ caller.cmd.kind = "saved" /\ ~caller.cmd.use_time) =>
          (caller.pc = "cli_effect" =>
              caller.now = caller.start + DelayWait(caller.cmd.delay))

\* C19: a token set while an execution is inside its wait ends that wait at the
\* next poll: from then on the execution is still in the wait it is about to
\* leave or has taken the cancelled return, and its effect is never started.
C19_CancelDuringWait ==
    \A t \in Tasks :
        op[t].cancelInWait =>
            op[t].pc \in {"wait_check", "wait_sleep", "post_wait", "cancel_return"}

\* the record a routine of n steps leaves when every step is run once, in order
RECURSIVE InOrder(_)
InOrder(n) ==
    IF n = 0 THEN <<>>
    ELSE InOrder(n - 1) \o <<(<<"wait", n>>), (<<"effect", n>>), (<<"done", n>>)>>

IsPrefix(s, r) == Len(s) <= Len(r) /\ s = SubSeq(r, 1, Len(s))

\* C20: run_routine runs its steps strictly in list order: what has happened so
\* far is always an initial part of wait 1, effect 1, done 1, wait 2, ..., so
\* the wait of step k+1 begins only after the effect of step k has returned;
\* device calls are made only between the call and the return of the current
\* step's effect; and a routine that completes has run every step exactly once.
C20_RoutineStepsInOrder ==
    caller.cmd.kind = "routine" =>
        /\ IsPrefix(caller.log, InOrder(Len(caller.steps)))
        /\ co[Caller].pc # "idle" =>
              /\ caller.pc = "rt_effect"
              /\ caller.log # <<>>
              /\ caller.log[Len(caller.log)] = <<"effect", caller.i>>
        /\ caller.pc = "rt_done" => caller.log = InOrder(Len(caller.steps))

\* a routine of two steps has completed, and both steps wrote to the light
C20_Witness ==
    /\ caller.pc = "rt_done" /\ Len(caller.steps) = 2
    /\ caller.steps[1].effect = "alarm" /\ caller.steps[2].effect = "fade_out"
    /\ caller.log = InOrder(2)
    /\ light = [power |-> FALSE, bri |-> 1]

\* the wait of some step of the routine ended cancelled, or its trigger was
\* found invalid before any waiting
WaitCancelled == \E p \in 1..Len(caller.log) : caller.log[p][1] = "cancelled"
WaitInvalid ==
    /\ caller.pc = "cli_raised"
    /\ caller.log = <<>> \/ caller.log[Len(caller.log)][1] = "done"

\* C21: when the wait of a routine step ends cancelled or its trigger is
\* invalid, the whole routine stops there: the step's effect is not called, no
\* effect is running, and run_routine takes no further step, so no later step
\* is waited for or run.
C21_RoutineStopsOnCancelledOrInvalid ==
    /\ [](caller.cmd.kind = "routine" /\ (WaitCancelled \/ WaitInvalid) =>
            /\ caller.pc \in {"cli_stopped", "cli_raised"}
            /\ co[Caller].pc = "idle"
            /\ \A p \in 1..Len(caller.log) :
                  caller.log[p][2] = caller.i => caller.log[p][1] \in {"wait", "cancelled"})
    /\ [][caller.pc \notin {"cli_stopped", "cli_raised"}]_vars

\* the first step has run; the wait of the second was cancelled with the
\* routine stopped there
C21_Witness ==
    /\ caller.pc = "cli_stopped" /\ Len(caller.steps) = 2
    /\ caller.log = InOrder(1) \o <<(<<"wait", 2>>), (<<"cancelled", 2>>)>>

\* the routine is running the effect of an alarm step that has alarm_duration 0
InZeroAlarm ==
    /\ caller.pc = "rt_effect"
    /\ caller.steps[caller.i].effect = "alarm"
    /\ caller.steps[caller.i].alarm_duration = 0

C23_BrightnessInRange ==
    /\ light.bri \in 1..FullBrightness
    /\ \A t \in Tasks : \A k \in 1..2 :
          obs[t].last2[k][1] = "bri" => obs[t].last2[k][2] \in 1..FullBrightness

\* a fade out has written its lowest brightness and switched the light off
C23_Witness ==
    /\ co[Caller].kind = "fade_out" /\ co[Caller].pc = "returned"
    /\ co[Caller].steps > 1
    /\ light.bri = 1 /\ obs[Caller].offIssued

\* the alarm has left the loop of its style
PastLoop(c) == c.pc \in {"restore_power", "restore_bri", "returned"}

\* C24: an alarm with duration 0 runs until cancelled: it has no end time, and
\* it is past its loop only if it was given a cancel_check, the token is set
\* and one of its stop checks saw it set.
C24_AlarmRunsUntilCancelled ==
    \A t \in Tasks :
        (IsAlarm(co[t]) /\ co[t].duration = 0) =>
            /\ co[t].end_time = None
            /\ PastLoop(co[t]) => (co[t].cc /\ timer_cancel /\ obs[t].sawCancel)

\* an alarm with duration 0 has gone round its loop several times and was
\* then stopped by the token
C24_Witness ==
    /\ IsAlarm(co[Caller]) /\ co[Caller].duration = 0
    /\ co[Caller].pc = "returned"
    /\ obs[Caller].loopWrites = CountCap /\ obs[Caller].sawCancel

\* the end time of the alarm has passed
EndPassed(c) == c.end_time # None /\ clock >= c.end_time

\* C25: an alarm with a duration above 0 stops on its own. Once its end time
\* has passed and it is still in its loop, it stands at a stop check and
\* starts no further write or sleep of the cycle; if it returns it has
\* restored the light; and, cancelled or not, it always comes to an end.
C25_TimedAlarmStops ==
    /\ [](\A t \in Tasks :
            (IsAlarm(co[t]) /\ co[t].duration > 0) =>
                /\ (EndPassed(co[t]) /\ ~PastLoop(co[t]) /\ co[t].pc # "raised") =>
                      co[t].pc \in CheckPcs
                /\ co[t].pc = "returned" =>
                      (light.power /\ light.bri = FullBrightness
                       /\ (obs[t].sawStop \/ obs[t].sawCancel)))
    /\ \A t \in Tasks :
          (IsAlarm(co[t]) /\ co[t].duration > 0) ~> (co[t].pc \in EndPcs)

\* an alarm with a duration has stopped at its end time, the token never set
C25_Witness ==
    /\ IsAlarm(co[Caller]) /\ co[Caller].duration > FlashInterval
    /\ co[Caller].pc = "returned" /\ ~timer_cancel
    /\ clock >= co[Caller].end_time
    /\ obs[Caller].loopWrites > 0

\* C26: a device call that failed in a control of the GUI is surfaced: once
\* run() has raised into _toggle_power or _set_brightness, the GUI shows an
\* error.
C26_ErrorsSurfaced ==
    (caller.pc = "ready" /\ caller.result = "error") => ui.status = "error"

\* nothing is in flight and Tk has run every callback queued for it
Quiet ==
    /\ \A t \in Tasks : Free(t)
    /\ ui.queue = <<>> /\ handler.ready = <<>> /\ caller.pc = "ready"

\* C27: after an effect submitted by the GUI has ended and its callbacks have
\* run, with no control used before or since (one submission, and run() has
\* never returned), _power_state equals the power last written to the light.
C27_PowerStateConsistent ==
    (Quiet /\ ui.nsub = 1 /\ caller.result = "none") => ui.power_state = light.power

\* the statements of fade_in and fade_out that follow one another directly,
\* by the await or check the coroutine stands at
FadeOrder ==
    {<<"init_power", "init_bri">>, <<"init_bri", "init_temp">>,
     <<"init_temp", "loop_check">>, <<"loop_check", "step_bri">>,
     <<"loop_check", "returned">>, <<"step_bri", "step_temp">>,
     <<"step_temp", "step_sleep">>, <<"step_temp", "final_off">>,
     <<"step_temp", "returned">>, <<"step_sleep", "loop_check">>,
     <<"final_off", "returned">>}

\* an effect of the GUI suspended in a device call or a sleep
EffectSuspended(t) ==
    /\ IsGuiOp(t) /\ op[t].pc = "effect"
    /\ co[t].pc \in DevicePcs \cup SleepPcs

\* C28: within one submitted operation the device calls are made in program
\* order: a fade moves from each statement to the one that follows it, its
\* step index never goes back, and a flashing alarm alternates its power
\* writes. Across operations the bridge gives no mutual exclusion: while an
\* effect is suspended and the device call of a control is pending on the
\* same loop, either of the two may be the next to go on.
C28_OrderWithinNotAcross ==
    /\ [][\A t \in Tasks :
            /\ (IsFade(co[t]) /\ IsFade(co'[t]) /\ co'[t].pc # co[t].pc) =>
                  /\ <<co[t].pc, co'[t].pc>> \in FadeOrder
                  /\ co'[t].i >= co[t].i
            /\ (IsAlarm(co[t]) /\ co[t].pc = "while_check" /\ co'[t].pc = "toggle_power") =>
                  co'[t].state = ~co[t].state
            /\ (IsAlarm(co[t]) /\ co[t].pc = "toggle_power" /\ co'[t].pc = "toggle_sleep") =>
                  light'.power = co[t].state]_vars
    /\ [](\A t \in Tasks, u \in Tasks :
            (EffectSuspended(t) /\ op[u].kind = "setter" /\ op[u].pc = "call"
             /\ handler.loop = "running") =>
                /\ ENABLED SetterCall(u)
                /\ ENABLED (FadeStep(t) \/ AlarmStep(t)))

\* the slider's brightness was written between the brightness write and the
\* temperature write of one step of a running fade
C28_Witness ==
    \E t \in Tasks :
        /\ IsGuiOp(t) /\ op[t].pc = "effect" /\ IsFade(co[t])
        /\ co[t].pc = "step_temp"
        /\ light.bri \in SliderValues

\* rgb_to_xy has returned
RgbDone == caller.pc = "colour_done" /\ caller.cmd.kind = "rgb_to_xy"

\* C29: rgb_to_xy(0, 0, 0) takes the guard and returns the white point
\* (0.31271, 0.32902); the guard is taken for no other input, and no input
\* makes rgb_to_xy divide by zero.
C29_RgbToXYGuard ==
    RgbDone =>
        /\ caller.value.raised = "none"
        /\ caller.value.guard <=> caller.args = <<0, 0, 0>>
        /\ caller.args = <<0, 0, 0>> => <<caller.value.x, caller.value.y>> = WhitePoint

\* black was converted and gave the white point
C29_Witness ==
    /\ RgbDone /\ caller.args = <<0, 0, 0>>
    /\ caller.value = [x |-> 31271, y |-> 32902, guard |-> TRUE, raised |-> "none"]

\* xy_to_rgb has returned or raised
XyDone == caller.pc = "colour_done" /\ caller.cmd.kind = "xy_to_rgb"

\* C30: xy_to_rgb gives, for every x, y and brightness, three integer
\* channels within 0..255 and raises nothing; for y <= 0 it takes X = Z = 0
\* instead of dividing by y.
C30_XyToRgbClamped ==
    XyDone =>
        /\ caller.value.raised = "none"
        /\ \A i \in 1..3 : caller.value.rgb[i] \in 0..255
        /\ caller.value.guard <=> (caller.args[2].k = "fin" /\ caller.args[2].v <= 0)

\* fade_in was called directly with duration_minutes = 0
ZeroFadeIn == co[Caller].kind = "fade_in" /\ co[Caller].duration = 0

\* C31: fade_in with duration 0 has steps = 1 and, unless cancelled, makes
\* exactly two steps: brightness 1 and temperature 500, then brightness 254
\* and temperature 250; the one sleep between them is of length 0.
C31_ZeroFadeInTwoSteps ==
    ZeroFadeIn =>
        LET c == co[Caller]
            o == obs[Caller]
        IN  /\ c.pc \in {"loop_check", "step_bri", "step_temp", "step_sleep", "returned"}
                   => c.steps = 1
            /\ o.nBri <= 2 /\ o.nTemp <= 2 /\ o.nSleeps <= 1
            /\ o.lastSleep \in {None, 0}
            /\ c.pc = "step_sleep" =>
                   /\ c.i = 0
                   /\ o.last2 = << <<"bri", 1>>, <<"temp", WarmTemp>> >>
            /\ c.result = "true" =>
                   /\ o.nBri = 2 /\ o.nTemp = 2 /\ o.nSleeps = 1
                   /\ o.last2 = << <<"bri", FullBrightness>>, <<"temp", CoolTemp>> >>

\* a fade_in of duration 0 ran to its end
C31_Witness ==
    /\ ZeroFadeIn
    /\ co[Caller].result = "true"
    /\ obs[Caller].nSleeps = 1 /\ obs[Caller].lastSleep = 0

\* round(n / d) for n >= 0 and d > 0, a tie going to the even neighbour
Round(n, d) ==
    LET q == n \div d
        r == n % d
    IN  IF 2 * r < d THEN q
        ELSE IF 2 * r > d THEN q + 1
        ELSE IF q % 2 = 0 THEN q ELSE q + 1

\* the last two device calls of a fade that has just written step i
StepWritten(c) ==
    \/ c.pc = "step_sleep"
    \/ c.pc = "returned" /\ c.result = "true" /\ c.kind = "fade_in"
    \/ c.pc = "final_off"

\* C32: fade_in first writes power on, brightness 1 and temperature 500,
\* takes steps = max(floor(duration * 6), 1), and at step i of 0..steps
\* writes brightness round(1 + 253 * i / steps) and temperature
\* round(500 - 250 * i / steps).
C32_FadeInRounded ==
    LET c == co[Caller]
        o == obs[Caller]
    IN  c.kind = "fade_in" =>
          /\ (c.pc = "loop_check" /\ c.i = 0) =>
                 /\ light.power
                 /\ o.last2 = << <<"bri", 1>>, <<"temp", WarmTemp>> >>
                 /\ c.steps = Max((c.duration * StepsPerMinute) \div UnitsPerMinute, 1)
          /\ c.pc \in {"loop_check", "step_bri", "step_temp", "step_sleep"} =>
                 c.i \in 0..c.steps
          /\ StepWritten(c) =>
                 o.last2 = << <<"bri", Round(c.steps + 253 * c.i, c.steps)>>,
                              <<"temp", Round(WarmTemp * c.steps - 250 * c.i, c.steps)>> >>

\* C33: fade_out first writes brightness 254 and temperature 250, at step
\* i of 0..steps writes brightness max(1, round(254 - 253 * i / steps)) and
\* temperature round(250 + 250 * i / steps), and its last step writes
\* brightness 1 and temperature 500 before the power-off.
C33_FadeOutRounded ==
    LET c == co[Caller]
        o == obs[Caller]
    IN  c.kind = "fade_out" =>
          /\ (c.pc = "loop_check" /\ c.i = 0) =>
                 o.last2 = << <<"bri", FullBrightness>>, <<"temp", CoolTemp>> >>
          /\ StepWritten(c) =>
                 o.last2 = << <<"bri", Max(1, Round(FullBrightness * c.steps - 253 * c.i,
                                                    c.steps))>>,
                              <<"temp", Round(CoolTemp * c.steps + 250 * c.i, c.steps)>> >>
          /\ c.pc = "final_off" =>
                 o.last2 = << <<"bri", 1>>, <<"temp", WarmTemp>> >>

Breathing(c) == IsAlarm(c) /\ c.style = "breathing"

\* the values of range(254, 20, -15) and of range(20, 254, 15)
DownRamp == {b \in BreathLow + 1 .. BreathHigh : (BreathHigh - b) % BreathStep = 0}
UpRamp == {b \in BreathLow .. BreathHigh - 1 : (b - BreathLow) % BreathStep = 0}
Lowest(S) == CHOOSE b \in S : \A d \in S : b <= d
Highest(S) == CHOOSE b \in S : \A d \in S : b >= d

\* C34: a breathing cycle that is not interrupted writes the brightnesses
\* of the ramp down from 254 towards 20, 15 apart, then those of the ramp up
\* from 20 towards 254, 15 apart; every ramp write comes directly after a
\* stop check that answered no, and at most one ramp write is made with the
\* token set.
C34_BreathingRamps ==
    /\ [](LET c == co[Caller]
              o == obs[Caller]
          IN  Breathing(c) =>
                /\ c.pc = "down_sleep" =>
                       /\ c.b \in DownRamp /\ o.last2[2] = <<"bri", c.b>>
                       /\ c.b < BreathHigh => o.last2[1] = <<"bri", c.b + BreathStep>>
                       /\ (c.b = BreathHigh /\ o.loopWrites > 1) =>
                              o.last2[1] = <<"bri", Highest(UpRamp)>>
                /\ c.pc = "up_sleep" =>
                       /\ c.b \in UpRamp /\ o.last2[2] = <<"bri", c.b>>
                       /\ c.b > BreathLow => o.last2[1] = <<"bri", c.b - BreathStep>>
                       /\ c.b = BreathLow => o.last2[1] = <<"bri", Lowest(DownRamp)>>
                /\ o.afterCancel <= 1)
    /\ [][(Breathing(co[Caller]) /\ co'[Caller].pc \in {"down_bri", "up_bri"}
              /\ co'[Caller].pc # co[Caller].pc)
             => (co[Caller].pc \in {"down_check", "up_check"}
                 /\ ~should_stop(co[Caller]))]_vars

\* a whole cycle went by: the ramp down begins again after the last value
\* of the ramp up
C34_Witness ==
    /\ Breathing(co[Caller]) /\ co[Caller].pc = "down_sleep"
    /\ obs[Caller].last2 = << <<"bri", Highest(UpRamp)>>, <<"bri", BreathHigh>> >>

\* all steps of the fade have been applied
AllStepsApplied(c) ==
    \/ c.pc = "final_off"
    \/ c.pc = "returned" /\ c.result = "true"
    \/ c.pc = "raised" /\ obs[Caller].raisedAt = "final_off"

\* C35: the progress sink of a fade is called once per applied step, after
\* the brightness and the temperature write of the step, with i / steps:
\* the k-th report is (k - 1) / steps, so the reports start at 0 and never
\* decrease; the last report is 1 exactly when all steps were applied, and
\* a fade that was cancelled before step i has reported i values only.
C35_ProgressReports ==
    LET c == co[Caller]
        o == obs[Caller]
        n == Len(o.progress)
    IN  IsFade(c) =>
          /\ n = o.nTemp /\ o.nTemp <= o.nBri /\ o.nBri <= o.nTemp + 1
          /\ \A k \in 1..n : o.progress[k] = <<k - 1, c.steps>>
          /\ (n > 0 /\ o.progress[n] = <<c.steps, c.steps>>) <=> AllStepsApplied(c)
          /\ c.result = "false" => n = c.i

\* a fade over two steps was cancelled before its last step, having
\* reported 0 and 1 / 2
C35_Witness ==
    /\ IsFade(co[Caller]) /\ co[Caller].result = "false"
    /\ obs[Caller].progress = << <<0, 2>>, <<1, 2>> >>

InFadeLoop(c) == c.pc \in {"loop_check", "step_bri", "step_temp", "step_sleep"}

\* C36: a fade sleeps once between two consecutive steps and not after the
\* last: i sleeps lie before step i, each of duration / steps, so a fade
\* that applied all its steps slept exactly steps times, and the power-off
\* of fade_out comes right after the last step's temperature write.
C36_SleepsBetweenSteps ==
    LET c == co[Caller]
        o == obs[Caller]
    IN  IsFade(c) =>
          /\ InFadeLoop(c) => (o.nSleeps = c.i /\ o.nSleeps <= c.steps)
          /\ o.nSleeps > 0 => o.lastSleep = c.duration \div c.steps
          /\ o.nSleeps <= o.nTemp /\ o.nTemp <= o.nSleeps + 1
          /\ AllStepsApplied(c) => o.nSleeps = c.steps
          /\ (c.pc = "final_off" \/ (c.pc = "returned" /\ c.result = "true")) =>
                 o.lastAwait = "call"
          /\ c.pc = "final_off" => o.last2[2] = <<"temp", WarmTemp>>
          /\ (c.kind = "fade_out" /\ c.result = "true") =>
                 o.last2 = << <<"temp", WarmTemp>>, <<"power", FALSE>> >>

\* a fade_out over three steps ran to its end
C36_Witness ==
    /\ co[Caller].kind = "fade_out" /\ co[Caller].result = "true"
    /\ co[Caller].steps = 3 /\ obs[Caller].nSleeps = 3
    /\ obs[Caller].lastSleep = 200

\* the effect was called with a cancel_check whose token was set already
PreSet(t) == co[t].cc /\ obs[t].setAt = "idle" /\ co[t].pc # "idle"

\* C37: a fade called with the token already set makes its three initial
\* writes, then its first check returns False and no step is written; an
\* alarm called with the token already set makes its three setup writes and
\* its two restore writes and nothing inside the loop.
C37_TokenSetBeforeCall ==
    LET c == co[Caller]
        o == obs[Caller]
    IN  PreSet(Caller) =>
          /\ o.loopWrites = 0 /\ o.nBri = 0 /\ o.nTemp = 0 /\ o.nSleeps = 0
          /\ c.result # "true" \/ IsAlarm(c)
          /\ (IsFade(c) /\ c.pc \in {"loop_check", "returned"}) =>
                 /\ o.nCalls = 3 /\ light.power
                 /\ o.last2 = << <<"bri", IF c.kind = "fade_in" THEN 1 ELSE FullBrightness>>,
                                 <<"temp", IF c.kind = "fade_in" THEN WarmTemp ELSE CoolTemp>> >>
          /\ (IsFade(c) /\ c.pc = "returned") => (c.result = "false" /\ o.nChecks = 1)
          /\ (IsAlarm(c) /\ c.pc = "while_check") =>
                 (o.nCalls = 3 /\ o.last2 = << <<"bri", FullBrightness>>, <<"xy", c.colour>> >>)
          /\ (IsAlarm(c) /\ c.pc = "returned") =>
                 (o.nCalls = 5 /\ o.last2 = << <<"power", TRUE>>, <<"bri", FullBrightness>> >>)
          /\ c.pc \notin {"step_bri", "step_temp", "step_sleep", "final_off", "down_bri",
                          "down_sleep", "up_bri", "up_sleep", "toggle_power", "toggle_sleep"}

\* an alarm called with the token set returned after five writes
C37_Witness ==
    /\ PreSet(Caller) /\ IsAlarm(co[Caller]) /\ co[Caller].pc = "returned"
    /\ obs[Caller].nCalls = 5 /\ timer_cancel

Flashing(c) == IsAlarm(c) /\ c.style \in {"flash", "fast"}

\* C40: an alarm that ends without an exception returns True, whether it
\* stopped by its duration or by cancellation; in the styles flash and fast
\* the power writes of the loop alternate, the first being off, and each is
\* followed by one sleep of 0.5 s (flash) or 0.2 s (fast).
C40_AlarmReturnsTrueAndAlternates ==
    LET c == co[Caller]
        o == obs[Caller]
    IN  /\ IsAlarm(c) =>
              /\ c.pc = "returned" => c.result = "true"
              /\ c.result = "error" <=> c.pc = "raised"
              /\ c.result # "false"
        /\ Flashing(c) =>
              /\ o.alternates
              /\ c.pc = "toggle_sleep" =>
                     /\ o.last2[2] = <<"power", c.state>>
                     /\ o.loopWrites = 1 => ~c.state
                     /\ o.lastAwait = "call"
                     /\ o.loopWrites = Min(o.nSleeps + 1, CountCap)
              /\ c.pc \in {"while_check", "toggle_power", "restore_power"} =>
                     /\ o.loopWrites = Min(o.nSleeps, CountCap)
                     /\ o.nSleeps > 0 =>
                            /\ o.lastAwait = "sleep"
                            /\ o.lastSleep = IF c.style = "fast" THEN FastInterval
                                                                ELSE FlashInterval

\* a fast alarm with a duration ran out of time, never cancelled, and
\* returned after at least two toggles
C40_Witness ==
    /\ Flashing(co[Caller]) /\ co[Caller].style = "fast"
    /\ co[Caller].duration > 0 /\ ~timer_cancel
    /\ co[Caller].pc = "returned" /\ co[Caller].result = "true"
    /\ obs[Caller].loopWrites >= 2

\* the effect called by a submitted run_alarm / run_effect has not ended: it
\* has device calls to make
EffectRunning(t) == IsGuiOp(t) /\ op[t].pc = "effect" /\ co[t].pc \notin EndPcs

\* C38: _timer_running is never false while an operation submitted by
\* _run_now still has device calls to make.
C38_RunningWhileCallsRemain ==
    \A t \in Tasks : EffectRunning(t) => ui.timer_running

\* the entries of a form that are no time: an hour or a minute that is no
\* number or out of range, a delay that is no number
InvalidTime(form) ==
    IF form.when = "time"
    THEN ~(/\ Parses(form.hour) /\ Parses(form.minute)
           /\ ValidClock(NumberOf(form.hour), NumberOf(form.minute)))
    ELSE ~Parses(form.delay)

\* a fade is asked for with a duration of zero or less
NonPositiveDuration(form) ==
    form.effect # "alarm" /\ Parses(form.duration) /\ NumberOf(form.duration) <= 0

\* the step is a run-now click of one of the kinds C39 names
RefusedClick ==
    /\ ui'.click.n # ui.click.n
    /\ \/ ui'.click.running
       \/ InvalidTime(ui'.click.form)
       \/ NonPositiveDuration(ui'.click.form)

\* C39: a run-now click made while _timer_running is true, or with an
\* invalid time, or for a fade with a duration of zero or less, submits
\* nothing and leaves _timer_cancel and _timer_running as they were.
C39_RefusedRunNowChangesNothing ==
    [][RefusedClick =>
          /\ timer_cancel' = timer_cancel
          /\ ui'.timer_running = ui.timer_running
          /\ ui'.nsub = ui.nsub /\ ui'.queue = ui.queue
          /\ UNCHANGED <<engineVars, handler, op, fut>>]_vars

====
